---- MODULE Spec2Model ----
(***************************************************************************)
(* A model of Katamari (src/src):                                          *)
(*   - KatamariMVCC, the in-memory multi-version store      (SpecMVCC)     *)
(*   - KatamariDBM, the write-ahead-logged record file      (SpecDBM)      *)
(*   - KatamariORM, the TTL / cache / per-key-lock facade   (SpecORM)      *)
(*   - KatamariMQServer, the job sharding coordinator       (SpecMQ)       *)
(*   - WorkerNode, the job-processing client                (SpecWN)       *)
(*   - PipelineExecutor and its job state machines          (SpecPL)       *)
(*   - KatamariLambdaFunction, the gated invocation         (SpecLF)       *)
(*   - parse_time_string                                    (SpecPT)       *)
(*   - FileProcessor, compression and encoding              (SpecFP)       *)
(*   - KatamariDBM written by several threads               (SpecWR)       *)
(*   - KatamariDBM opened after its index file was lost     (SpecRebuild)  *)
(*   - WorkerNode registering with KatamariMQServer         (SpecHS)       *)
(*   - the server's registry, any id in update_heartbeat    (SpecRegistry) *)
(*   - assign_shards for three workers and nine items       (SpecExample)  *)
(* Each specification moves only the variables of its own component.       *)
(***************************************************************************)
EXTENDS Integers, Sequences, FiniteSets, TLC

VARIABLES
    now,            \* the wall clock read by time.time()
    \* ---- KatamariMVCC
    store,          \* self.store: key -> list of VersionedValue
    transactions,   \* self.transactions: active tx_id -> start timestamp
    nextTx,         \* number of the next tx_id begin_transaction hands out
    putPending,     \* per thread: the VersionedValue built at line 79, not yet appended
    lastGet,        \* what the call of get just made returned (NoGet after any other step)
    committed,      \* history: the transactions commit() was called for
    txPrior,        \* history: per transaction, the transactions committed before its begin
    \* ---- KatamariDBM
    dbmUp,          \* "down": no instance; "up": constructed; "failed": __init__ raised
    index,          \* self.index: key -> offset (in memory)
    dataFile,       \* <name>.dat
    walFile,        \* <name>.wal
    idxFile,        \* <name>.idx
    dbmPc,          \* the step the set in progress has reached
    dbmResult,      \* what the call just made returned or raised
    dbmOps,         \* calls and crashes so far (the model's bound on a run)
    expected,       \* history: the mapping the same calls give without a crash
    tornEver,       \* history: a crash has cut a WAL append short
    ioFailEver,     \* history: a step of a set has raised an I/O error
    crashAt,        \* history: the step at which the last crash happened
    deleted,        \* history: keys deleted and not set again since
    failed,         \* history: key -> the value of a set that failed after its WAL append
    \* ---- KatamariORM
    ormStore,       \* self.store
    ttl_store,      \* self.ttl_store: key -> expire time
    ttl_heap,       \* self.ttl_heap: the entries (expire_time, key), in push order
    ttl_event,      \* self.ttl_event is set
    lru_cache,      \* self.lru_cache: entries, least recently used first
    lockHolder,     \* self.locks: key -> the task holding the key's lock
    lockWaiters,    \* self.locks: key -> the tasks waiting in acquire(), in order
    ormTask,        \* per task: where its call is suspended, and its locals
    transaction_log,    \* the lines of transaction.log
    index_update_queue, \* self.index_update_queue
    searchIndex,    \* the ids of the documents in the search index
    ormResult,      \* what the call of get that just returned gave
    ormOps,         \* calls of set and delete so far (the model's bound on a run)
    ormFails,       \* failures of commit_transaction so far
    lastAcq,        \* history: key -> the write that acquired the key's lock last
    lastDone,       \* history: key -> the value of the last set that returned, None
                    \* once the key was deleted after it
    \* ---- KatamariMQServer
    workers,        \* self.workers: the entries [id, workload], in insertion order
    connOpen,       \* the worker ids whose websocket is open
    dbWorkers,      \* self.db: worker id -> the workload persisted for it
    dbShards,       \* self.db: <<job_id, i>> (the key shard_{job_id}_{i}) -> its record
    frames,         \* worker id -> the frames sent on its websocket, in order
    worker_data_shards, \* self.worker_data_shards
    mqCall,         \* the call of assign_shards in progress, or the last one
    mqResult,       \* how the call that just returned ended
    mqOps,          \* calls of the dispatcher so far (the model's bound on a run)
    \* ---- WorkerNode (src/src/KatamariMQClient.py)
    wnConn,         \* "new": start() not called; "open": connected; "closed"
    wnWorkload,     \* self.workload
    wnJob,          \* the kind of the job process_job is suspended in, or "none"
    wnInbox,        \* the frames the server has sent and receive_jobs has not read
    wnReported,     \* the workloads of the heartbeats sent on the connection, in order
    wnReceived,     \* history: frames receive_jobs has taken from the connection
    wnCompleted,    \* history: jobs whose process_job has returned
    \* ---- PipelineExecutor, EventSystem (src/src/KatamariPipelines.py)
    plState,        \* per executor: pipeline.state_machine.current_state
    plConfig,       \* per executor: the number of jobs in pipeline.config
    plJobs,         \* per executor: self.jobs, the state of each job's state machine
    plLoaded,       \* per executor: the init_jobs task has run
    plPc,           \* per executor: where execute_pipeline is suspended
    plEvents,       \* event_system.events: the names subscribed to
    plRuns,         \* calls of execute_pipeline so far (the model's bound on a run)
    \* ---- KatamariLambdaFunction (src/src/KatamariLambda.py)
    lamState,       \* self.state_machine.current_state ("None" before __init__)
    lamLimit,       \* self.concurrency_limit
    active_executions,  \* self.active_executions
    lamTask,        \* per caller: its call of invoke, suspended in wait_for or idle
    lamResult,      \* how the call of invoke (or set_state) just made ended
    lamInvokes,     \* calls of invoke so far (the model's bound on a run)
    \* ---- parse_time_string (src/src/KatamariPipelines.py, KatamariLambda.py)
    ptInput,        \* time_str, as the sequence of its characters
    ptPos,          \* the index findall scans from next
    ptTotal,        \* total_seconds
    ptPc,           \* "idle": no call; "scan": in the loop; "done": returned
    \* ---- FileProcessor (src/src/KatamariDB.py)
    fpMethod,       \* self.compression_method ("none" before __init__)
    fpValue,        \* the value process_value was called with
    fpResult,       \* what process_value returned or raised
    fpDecoded,      \* what decode_data returned for the payload
    fpOut,          \* what decompress_data returned for the decoded payload
    fpPc,           \* the calls made so far: "new", "processed", "decoded", "done"
    \* ---- KatamariDBM shared by several threads
    wrLock,         \* self.lock: the thread that holds it, NoThread when free
    wrPc,           \* per thread: the step its call has reached
    wrIndex,        \* self.index
    wrData,         \* the bytes of <name>.dat
    wrWal,          \* the bytes of <name>.wal
    wrIdx,          \* the index <name>.idx holds
    wrOrder,        \* history: the calls in the order they took the lock, each with
                    \* the number of calls made by then
    wrResult,       \* what the call that returned last returned or raised
    wrCalls,        \* calls made so far (the model's bound on a run)
    \* ---- the registration handshake of WorkerNode and KatamariMQServer
    hsClient,       \* per node: "new", "open" (inside start()), "closed"
    hsWire,         \* per node: the frames sent and not yet received by the server
    hsHandler,      \* per node: the server's handle_worker: "none", "recv", "loop", "ended"
    hsWorkerId,     \* per node: the worker_id its handle_worker holds
    hsWorkers,      \* self.workers of the server: worker_id -> workload
    hsDb,           \* self.db of the server: worker_id -> persisted workload
    hsBeats         \* heartbeats sent so far (the model's bound on a run)

mvccVars == <<store, transactions, nextTx, putPending, lastGet, committed, txPrior>>

dbmVars == <<dbmUp, index, dataFile, walFile, idxFile, dbmPc, dbmResult, dbmOps,
             expected, tornEver, ioFailEver, crashAt, deleted, failed>>

ormVars == <<ormStore, ttl_store, ttl_heap, ttl_event, lru_cache, lockHolder,
             lockWaiters, ormTask, transaction_log, index_update_queue,
             searchIndex, ormResult, ormOps, ormFails, lastAcq, lastDone>>

mqVars == <<workers, connOpen, dbWorkers, dbShards, frames, worker_data_shards,
            mqCall, mqResult, mqOps>>

wnVars == <<wnConn, wnWorkload, wnJob, wnInbox, wnReported, wnReceived, wnCompleted>>

plVars == <<plState, plConfig, plJobs, plLoaded, plPc, plEvents, plRuns>>

lamVars == <<lamState, lamLimit, active_executions, lamTask, lamResult, lamInvokes>>

ptVars == <<ptInput, ptPos, ptTotal, ptPc>>

fpVars == <<fpMethod, fpValue, fpResult, fpDecoded, fpOut, fpPc>>

wrVars == <<wrLock, wrPc, wrIndex, wrData, wrWal, wrIdx, wrOrder, wrResult, wrCalls>>

hsVars == <<hsClient, hsWire, hsHandler, hsWorkerId, hsWorkers, hsDb, hsBeats>>

vars == <<now, mvccVars, dbmVars, ormVars, mqVars, wnVars, plVars, lamVars, ptVars,
          fpVars, wrVars, hsVars>>

\* what the steps of one component leave alone
FrameMVCC == UNCHANGED <<dbmVars, ormVars, mqVars, wnVars, plVars, lamVars, ptVars, fpVars, wrVars, hsVars>>
FrameDBM == UNCHANGED <<now, mvccVars, ormVars, mqVars, wnVars, plVars, lamVars, ptVars, fpVars, wrVars, hsVars>>
FrameORM == UNCHANGED <<mvccVars, dbmVars, mqVars, wnVars, plVars, lamVars, ptVars, fpVars, wrVars, hsVars>>
FrameMQ == UNCHANGED <<now, mvccVars, dbmVars, ormVars, wnVars, plVars, lamVars, ptVars, fpVars, wrVars, hsVars>>
FrameWN == UNCHANGED <<now, mvccVars, dbmVars, ormVars, mqVars, plVars, lamVars, ptVars, fpVars, wrVars, hsVars>>
FramePL == UNCHANGED <<now, mvccVars, dbmVars, ormVars, mqVars, wnVars, lamVars, ptVars, fpVars, wrVars, hsVars>>
FrameLF == UNCHANGED <<mvccVars, dbmVars, ormVars, mqVars, wnVars, plVars, ptVars, fpVars, wrVars, hsVars>>
FramePT == UNCHANGED <<now, mvccVars, dbmVars, ormVars, mqVars, wnVars, plVars, lamVars, fpVars, wrVars, hsVars>>
FrameFP == UNCHANGED <<now, mvccVars, dbmVars, ormVars, mqVars, wnVars, plVars, lamVars, ptVars, wrVars, hsVars>>
FrameWR == UNCHANGED <<now, mvccVars, dbmVars, ormVars, mqVars, wnVars, plVars, lamVars, ptVars, fpVars, hsVars>>
FrameHS == UNCHANGED <<now, mvccVars, dbmVars, ormVars, mqVars, wnVars, plVars, lamVars, ptVars, fpVars, wrVars>>

(***************************************************************************)
(* Bounds of the model.                                                    *)
(***************************************************************************)
MaxClock == 2       \* the clock takes the values 0..MaxClock
MaxTx == 2          \* transactions begun in one run
MaxPuts == 2        \* calls of put in one run
MaxDbmOps == 3      \* calls of set and delete, and crashes, in one run
MaxOrmOps == 2      \* calls of KatamariORM set and delete in one run
MaxOrmFails == 1    \* failures of commit_transaction in one run
NumWorkers == 2     \* worker ids
MaxWorkload == 1    \* the largest workload a heartbeat reports
MaxDataLen == 3     \* the longest data list of a job
MaxMqOps == 2       \* calls of the dispatcher in one run
NumOrmTasks == 2    \* tasks calling KatamariORM concurrently
CacheSize == 1      \* cache_size, the capacity of the LRU cache
NumThreads == 2     \* threads calling put concurrently
MaxWnJobs == 2      \* frames the server sends to one worker in one run
MaxBeats == 3       \* heartbeats a worker sends in one run
NumPipelines == 2    \* executors sharing one EventSystem
MaxPlJobs == 2      \* the most jobs in one pipeline's config
MaxPlRuns == 3      \* calls of execute_pipeline in one run
NumInvokers == 3    \* tasks calling invoke concurrently
MaxLimit == 2       \* the largest concurrency_limit
MaxInvokes == 3     \* calls of invoke in one run
LamTimeout == 1     \* timeout_seconds, in steps of the clock
MaxTimeLen == 3     \* the longest time string tried character by character
MaxCodecValue == 120 \* the largest value given to process_value
NumWriters == 2     \* threads that share one KatamariDBM
MaxWrCalls == 3     \* set and delete calls made in a run
MaxHsBeats == 3     \* heartbeats sent in a run

Max(S) == CHOOSE x \in S : \A y \in S : y <= x

(***************************************************************************)
(* The clock.  time.time() is the wall clock as a float: two successive    *)
(* readings are often equal (the float has a resolution of about 238 ns    *)
(* at today's epoch, and coarser clocks exist), so the clock advances by   *)
(* a step of its own and any number of calls may read the same value.      *)
(* The model keeps it non-decreasing.                                      *)
(***************************************************************************)
Tick ==
    /\ now < MaxClock
    /\ now' = now + 1

(***************************************************************************)
(* KatamariMVCC                                                            *)
(***************************************************************************)
MvKeys == {"a", "b"}
MvValues == {"v1", "v2"}
TxIds == 1..MaxTx
Threads == 1..NumThreads
NoTx == 0           \* tx_id = None
NoPut == [key |-> "none"]
NoGet == [key |-> "none"]
None == "None"

Begun == 1..(nextTx - 1)

\* VersionedValue.__init__.  Two fields are history: `begun`, the transactions
\* begun before the put was called, and `open`, whether the writing
\* transaction was still active when the version was appended.
VersionedValue(value, version, timestamp, transaction_id) ==
    [value |-> value, version |-> version, timestamp |-> timestamp,
     transaction_id |-> transaction_id, begun |-> Begun, open |-> FALSE]

\* a get that takes 0 as the start time of a transaction it does not know
TransactionStartTimeZero(tx_id) ==
    IF tx_id \in DOMAIN transactions THEN transactions[tx_id] ELSE 0

\* line 71: self.transactions.get(tx_id, time.time())
TransactionStartTime(tx_id) ==
    IF tx_id \in DOMAIN transactions THEN transactions[tx_id] ELSE now

\* lines 72-75: the first version, newest first, with timestamp <= start;
\* 0 when there is none.
VisibleIndex(history, start) ==
    LET ok == {i \in 1..Len(history) : history[i].timestamp <= start}
    IN IF ok = {} THEN 0 ELSE Max(ok)

\* get: the index of the version returned (0: None).  A key that is not in
\* the defaultdict and a key with an empty list both give None.
MVCCGetIndex(key, tx_id) ==
    IF Len(store[key]) = 0 THEN 0
    ELSE IF tx_id = NoTx THEN Len(store[key])
    ELSE VisibleIndex(store[key], TransactionStartTime(tx_id))

\* the calls of put made so far, appended or not (the model's bound on a run)
RECURSIVE SumLen(_)
SumLen(S) ==
    IF S = {} THEN 0
    ELSE LET k == CHOOSE x \in S : TRUE IN Len(store[k]) + SumLen(S \ {k})

PutsMade == SumLen(MvKeys) + Cardinality({t \in Threads : putPending[t] # NoPut})

\* commit: the transactions map after commit(tx_id)
CommitTransactions(tx_id) ==
    [t \in (DOMAIN transactions) \ {tx_id} |-> transactions[t]]

InitMVCC ==
    /\ store = [k \in MvKeys |-> <<>>]
    /\ transactions = <<>>
    /\ nextTx = 1
    /\ putPending = [th \in Threads |-> NoPut]
    /\ lastGet = NoGet
    /\ committed = {}
    /\ txPrior = [t \in TxIds |-> {}]

\* begin_transaction.  tx_id is built from time.time_ns(), whose resolution is
\* finer than that of the float time.time() returns: ids are distinct even
\* when start timestamps are equal.
BeginTransaction ==
    /\ nextTx <= MaxTx
    /\ transactions' = (nextTx :> now) @@ transactions
    /\ nextTx' = nextTx + 1
    /\ txPrior' = [txPrior EXCEPT ![nextTx] = committed]
    /\ lastGet' = NoGet
    /\ UNCHANGED <<now, store, putPending, committed>>
    /\ FrameMVCC

\* get, one critical section under self.lock
MVCCGet(key, tx_id) ==
    /\ LET i == MVCCGetIndex(key, tx_id)
       IN lastGet' = [key |-> key, tx |-> tx_id, idx |-> i,
                      value |-> IF i = 0 THEN None ELSE store[key][i].value,
                      active |-> tx_id \in DOMAIN transactions]
    /\ UNCHANGED <<now, store, transactions, nextTx, putPending, committed, txPrior>>
    /\ FrameMVCC

\* put, line 79: the new version is built before the lock is taken
PutPrepare(th, key, value, tx_id) ==
    /\ putPending[th] = NoPut
    /\ tx_id \in DOMAIN transactions
    /\ PutsMade < MaxPuts
    /\ putPending' = [putPending EXCEPT ![th] =
            [key |-> key,
             vv |-> VersionedValue(value, Len(store[key]) + 1, now, tx_id)]]
    /\ lastGet' = NoGet
    /\ UNCHANGED <<now, store, transactions, nextTx, committed, txPrior>>
    /\ FrameMVCC

\* put, lines 80-81: the append under self.lock
PutAppend(th) ==
    /\ putPending[th] # NoPut
    /\ store' = [store EXCEPT ![putPending[th].key] =
            Append(@, [putPending[th].vv EXCEPT
                        !.open = putPending[th].vv.transaction_id \in DOMAIN transactions])]
    /\ putPending' = [putPending EXCEPT ![th] = NoPut]
    /\ lastGet' = NoGet
    /\ UNCHANGED <<now, transactions, nextTx, committed, txPrior>>
    /\ FrameMVCC

\* commit
MVCCCommit(tx_id) ==
    /\ tx_id \in DOMAIN transactions
    /\ transactions' = CommitTransactions(tx_id)
    /\ committed' = committed \cup {tx_id}
    /\ lastGet' = NoGet
    /\ UNCHANGED <<now, store, nextTx, putPending, txPrior>>
    /\ FrameMVCC

TickMVCC ==
    /\ Tick
    /\ lastGet' = NoGet
    /\ UNCHANGED <<store, transactions, nextTx, putPending, committed, txPrior>>
    /\ FrameMVCC

NextMVCC ==
    \/ TickMVCC
    \/ BeginTransaction
    \/ \E k \in MvKeys, t \in Begun \cup {NoTx} : MVCCGet(k, t)
    \/ \E th \in Threads, k \in MvKeys, v \in MvValues, t \in Begun :
            PutPrepare(th, k, v, t)
    \/ \E th \in Threads : PutAppend(th)
    \/ \E t \in Begun : MVCCCommit(t)

(***************************************************************************)
(* KatamariDBM.  A file is a sequence of bytes (numbers 0..255); offsets   *)
(* count bytes.  A crash ends the process: the in-memory index is lost,    *)
(* the files stay as they are.                                             *)
(***************************************************************************)
HeaderLen == 8      \* struct '>II'

DbmKeys == {<<97>>, <<97, 98>>}     \* "a", "ab" as key.encode() gives them
DbmValues == {7, 42}

Min(a, b) == IF a <= b THEN a ELSE b

AbsentFile == [exists |-> FALSE, bytes |-> <<>>]
File(bytes) == [exists |-> TRUE, bytes |-> bytes]

\* f.read(n) at position pos: at most n bytes, fewer or none at the end
Read(bytes, pos, n) ==
    IF pos >= Len(bytes) \/ n <= 0 THEN <<>>
    ELSE SubSeq(bytes, pos + 1, Min(pos + n, Len(bytes)))

\* struct.pack('>II', key_size, value_size)
U32(n) == <<n \div 16777216, (n \div 65536) % 256, (n \div 256) % 256, n % 256>>
Pack(key_size, value_size) == U32(key_size) \o U32(value_size)

\* struct.unpack('>II', header), for a header of HeaderLen bytes
UnpackU32(b, i) == ((b[i] * 256 + b[i + 1]) * 256 + b[i + 2]) * 256 + b[i + 3]
KeySize(header) == UnpackU32(header, 1)
ValueSize(header) == UnpackU32(header, 5)

\* orjson.dumps of a non-negative integer: its decimal digits in ASCII
RECURSIVE Dumps(_)
Dumps(value) ==
    IF value < 10 THEN <<48 + value>>
    ELSE Append(Dumps(value \div 10), 48 + (value % 10))

Ok(v) == [tag |-> "ok", v |-> v]
KeyError == [tag |-> "KeyError", v |-> 0]
ReadError == [tag |-> "error", v |-> 0]     \* struct.error, JSONDecodeError

RECURSIVE Number(_)
Number(digits) ==
    IF digits = <<>> THEN 0
    ELSE Number(SubSeq(digits, 1, Len(digits) - 1)) * 10 + (digits[Len(digits)] - 48)

\* orjson.loads of the bytes a record holds: a number when they are decimal
\* digits, an error otherwise (empty input, a byte of a header or of a key)
Loads(bytes) ==
    IF \/ bytes = <<>>
       \/ \E i \in 1..Len(bytes) : bytes[i] \notin 48..57
       \/ (Len(bytes) > 1 /\ bytes[1] = 48)
    THEN ReadError
    ELSE Ok(Number(bytes))

\* the record set(key, value) writes to the WAL and to the data file
Record(key, value) == Pack(Len(key), Len(Dumps(value))) \o key \o Dumps(value)

DictSet(d, k, v) == [x \in (DOMAIN d) \cup {k} |-> IF x = k THEN v ELSE d[x]]
DictDel(d, k) == [x \in (DOMAIN d) \ {k} |-> d[x]]

\* _load_index, lines 194-205: the scan of the data file.  pos is the file
\* position, offset the scan's own count.
\* a scan that keeps the first offset found for a key
RECURSIVE ScanDataFirstWins(_, _, _, _)
ScanDataFirstWins(bytes, pos, offset, idx) ==
    LET header == Read(bytes, pos, HeaderLen)
    IN IF header = <<>> THEN [ok |-> TRUE, index |-> idx]
       ELSE IF Len(header) # HeaderLen THEN [ok |-> FALSE, index |-> idx]
       ELSE LET key == Read(bytes, pos + HeaderLen, KeySize(header))
            IN ScanDataFirstWins(bytes,
                        pos + HeaderLen + Len(key) + ValueSize(header),
                        offset + HeaderLen + KeySize(header) + ValueSize(header),
                        IF key \in DOMAIN idx THEN idx ELSE DictSet(idx, key, offset))

RECURSIVE ScanData(_, _, _, _)
ScanData(bytes, pos, offset, idx) ==
    LET header == Read(bytes, pos, HeaderLen)
    IN IF header = <<>> THEN [ok |-> TRUE, index |-> idx]
       ELSE IF Len(header) # HeaderLen THEN [ok |-> FALSE, index |-> idx]
       ELSE LET key == Read(bytes, pos + HeaderLen, KeySize(header))
            IN ScanData(bytes,
                        pos + HeaderLen + Len(key) + ValueSize(header),
                        offset + HeaderLen + KeySize(header) + ValueSize(header),
                        DictSet(idx, key, offset))

\* _load_index
LoadIndex ==
    IF idxFile.exists THEN [ok |-> TRUE, index |-> idxFile.index]
    ELSE IF dataFile.exists THEN ScanData(dataFile.bytes, 0, 0, <<>>)
    ELSE [ok |-> TRUE, index |-> <<>>]

\* a recovery that removes the WAL without replaying it
RECURSIVE ReplayWalNothing(_, _, _, _)
ReplayWalNothing(wal, pos, data, idx) == [ok |-> TRUE, data |-> data, index |-> idx]

\* _recover_from_wal, lines 216-227: the replay loop
RECURSIVE ReplayWal(_, _, _, _)
ReplayWal(wal, pos, data, idx) ==
    LET entry == Read(wal, pos, HeaderLen)
    IN IF entry = <<>> THEN [ok |-> TRUE, data |-> data, index |-> idx]
       ELSE IF Len(entry) # HeaderLen THEN [ok |-> FALSE, data |-> data, index |-> idx]
       ELSE LET key == Read(wal, pos + HeaderLen, KeySize(entry))
                value == Read(wal, pos + HeaderLen + Len(key), ValueSize(entry))
                offset == Len(data)
            IN ReplayWal(wal, pos + HeaderLen + Len(key) + Len(value),
                         data \o entry \o key \o value,
                         DictSet(idx, key, offset))

\* __getitem__
DBMGetItem(key) ==
    IF key \notin DOMAIN index THEN KeyError
    ELSE IF ~dataFile.exists THEN ReadError
    ELSE LET offset == index[key]
             header == Read(dataFile.bytes, offset, HeaderLen)
         IN IF Len(header) # HeaderLen THEN ReadError
            ELSE Loads(Read(dataFile.bytes,
                            offset + HeaderLen + KeySize(header),
                            ValueSize(header)))

\* the bytes from pos on are a sequence of complete records
RECURSIVE CompleteRecords(_, _)
CompleteRecords(bytes, pos) ==
    IF pos >= Len(bytes) THEN pos = Len(bytes)
    ELSE IF pos + HeaderLen > Len(bytes) THEN FALSE
    ELSE LET header == Read(bytes, pos, HeaderLen)
             end == pos + HeaderLen + KeySize(header) + ValueSize(header)
         IN end <= Len(bytes) /\ CompleteRecords(bytes, end)

Idle == [step |-> "idle", key |-> <<>>, value |-> 0, offset |-> 0]
NoResult == [op |-> "none", key |-> <<>>, res |-> Ok(0), torn |-> FALSE]

InitDBM ==
    /\ dbmUp = "down"
    /\ index = <<>>
    /\ dataFile = AbsentFile
    /\ walFile = AbsentFile
    /\ idxFile = [exists |-> FALSE, index |-> <<>>]
    /\ dbmPc = Idle
    /\ dbmResult = NoResult
    /\ dbmOps = 0
    /\ expected = <<>>
    /\ tornEver = FALSE
    /\ ioFailEver = FALSE
    /\ crashAt = "none"
    /\ deleted = {}
    /\ failed = <<>>

\* __init__: _load_index, then _recover_from_wal.  When the constructor
\* raises, the files stay as the replay left them and a retry fails the same.
DBMOpen ==
    /\ dbmUp = "down"
    /\ LET loaded == LoadIndex
           torn == walFile.exists /\ ~CompleteRecords(walFile.bytes, 0)
       IN IF ~loaded.ok
          THEN /\ dbmUp' = "failed"
               /\ dbmResult' = [op |-> "open", key |-> <<>>, res |-> ReadError, torn |-> torn]
               /\ UNCHANGED <<index, dataFile, walFile, idxFile, failed>>
          ELSE IF ~walFile.exists
          THEN /\ dbmUp' = "up"
               /\ index' = loaded.index
               /\ dbmResult' = [op |-> "open", key |-> <<>>, res |-> Ok(0), torn |-> torn]
               /\ failed' = [k \in DOMAIN failed |-> [failed[k] EXCEPT !.reopened = TRUE]]
               /\ UNCHANGED <<dataFile, walFile, idxFile>>
          ELSE LET r == ReplayWal(walFile.bytes, 0, dataFile.bytes, loaded.index)
               IN IF r.ok
                  THEN /\ dbmUp' = "up"
                       /\ index' = r.index
                       /\ dataFile' = File(r.data)
                       /\ walFile' = AbsentFile
                       /\ idxFile' = [exists |-> TRUE, index |-> r.index]
                       /\ dbmResult' = [op |-> "open", key |-> <<>>, res |-> Ok(0), torn |-> torn]
                       /\ failed' = [k \in DOMAIN failed |-> [failed[k] EXCEPT !.reopened = TRUE]]
                  ELSE /\ dbmUp' = "failed"
                       /\ dataFile' = File(r.data)
                       /\ dbmResult' = [op |-> "open", key |-> <<>>, res |-> ReadError, torn |-> torn]
                       /\ UNCHANGED <<index, walFile, idxFile, failed>>
    /\ UNCHANGED <<dbmPc, dbmOps, expected, tornEver, ioFailEver, crashAt, deleted>>
    /\ FrameDBM

\* __getitem__
DBMGet(key) ==
    /\ dbmUp = "up" /\ dbmPc = Idle
    /\ dbmResult' = [op |-> "get", key |-> key, res |-> DBMGetItem(key), torn |-> FALSE]
    /\ UNCHANGED <<dbmUp, index, dataFile, walFile, idxFile, dbmPc, dbmOps, expected,
                   tornEver, ioFailEver, crashAt, deleted, failed>>
    /\ FrameDBM

\* __setitem__, lines 255-262: the WAL append
DBMSetWal(key, value) ==
    /\ dbmUp = "up" /\ dbmPc = Idle
    /\ dbmOps < MaxDbmOps
    /\ dbmOps' = dbmOps + 1
    /\ walFile' = File(walFile.bytes \o Record(key, value))
    /\ dbmPc' = [step |-> "wal", key |-> key, value |-> value, offset |-> 0]
    /\ dbmResult' = NoResult
    /\ expected' = DictSet(expected, key, value)
    /\ deleted' = deleted \ {key}
    /\ failed' = DictDel(failed, key)
    /\ UNCHANGED <<dbmUp, index, dataFile, idxFile, tornEver, ioFailEver, crashAt>>
    /\ FrameDBM

\* __setitem__, lines 265-273: the data-file append; tell() is the end of the file
DBMSetData ==
    /\ dbmUp = "up" /\ dbmPc.step = "wal"
    /\ dataFile' = File(dataFile.bytes \o Record(dbmPc.key, dbmPc.value))
    /\ dbmPc' = [dbmPc EXCEPT !.step = "data", !.offset = Len(dataFile.bytes)]
    /\ UNCHANGED <<dbmUp, index, walFile, idxFile, dbmResult, dbmOps, expected,
                   tornEver, ioFailEver, crashAt, deleted, failed>>
    /\ FrameDBM

\* __setitem__, lines 276-277: the index update and its persist
DBMSetIndexNotPersisted ==
    /\ dbmUp = "up" /\ dbmPc.step = "data"
    /\ index' = DictSet(index, dbmPc.key, dbmPc.offset)
    /\ dbmPc' = [dbmPc EXCEPT !.step = "index"]
    /\ UNCHANGED <<dbmUp, dataFile, walFile, idxFile, dbmResult, dbmOps, expected,
                   tornEver, ioFailEver, crashAt, deleted, failed>>
    /\ FrameDBM

DBMSetIndex ==
    /\ dbmUp = "up" /\ dbmPc.step = "data"
    /\ index' = DictSet(index, dbmPc.key, dbmPc.offset)
    /\ idxFile' = [exists |-> TRUE, index |-> index']
    /\ dbmPc' = [dbmPc EXCEPT !.step = "index"]
    /\ UNCHANGED <<dbmUp, dataFile, walFile, dbmResult, dbmOps, expected,
                   tornEver, ioFailEver, crashAt, deleted, failed>>
    /\ FrameDBM

\* __setitem__, lines 280-281: the WAL truncate; the call returns
DBMSetTruncate ==
    /\ dbmUp = "up" /\ dbmPc.step = "index"
    /\ walFile' = File(<<>>)
    /\ dbmPc' = Idle
    /\ dbmResult' = [op |-> "set", key |-> dbmPc.key, res |-> Ok(0), torn |-> FALSE]
    /\ UNCHANGED <<dbmUp, index, dataFile, idxFile, dbmOps, expected,
                   tornEver, ioFailEver, crashAt, deleted, failed>>
    /\ FrameDBM

\* __setitem__ raises an I/O error at the step that follows dbmPc.step (the
\* open of the file fails and nothing is written); the lock is released and
\* the error reaches the caller.  At the index persist the in-memory index
\* has already been updated (line 276).
DBMSetFails ==
    /\ dbmUp = "up" /\ dbmPc.step \in {"wal", "data", "index"}
    /\ index' = IF dbmPc.step = "data"
                THEN DictSet(index, dbmPc.key, dbmPc.offset) ELSE index
    /\ dbmPc' = Idle
    /\ dbmResult' = [op |-> "set", key |-> dbmPc.key, res |-> ReadError, torn |-> FALSE]
    /\ ioFailEver' = TRUE
    /\ failed' = DictSet(failed, dbmPc.key, [value |-> dbmPc.value, reopened |-> FALSE])
    /\ UNCHANGED <<dbmUp, dataFile, walFile, idxFile, dbmOps, expected,
                   tornEver, crashAt, deleted>>
    /\ FrameDBM

\* __delitem__
DBMDelete(key) ==
    /\ dbmUp = "up" /\ dbmPc = Idle
    /\ dbmOps < MaxDbmOps
    /\ dbmOps' = dbmOps + 1
    /\ IF key \notin DOMAIN index
       THEN /\ dbmResult' = [op |-> "delete", key |-> key, res |-> KeyError, torn |-> FALSE]
            /\ UNCHANGED <<index, idxFile, expected, deleted, failed>>
       ELSE /\ index' = DictDel(index, key)
            /\ idxFile' = [exists |-> TRUE, index |-> index']
            /\ dbmResult' = [op |-> "delete", key |-> key, res |-> Ok(0), torn |-> FALSE]
            /\ expected' = DictDel(expected, key)
            /\ deleted' = deleted \cup {key}
            /\ failed' = DictDel(failed, key)
    /\ UNCHANGED <<dbmUp, dataFile, walFile, dbmPc, tornEver, ioFailEver, crashAt>>
    /\ FrameDBM

\* the process ends between two calls or between two steps of a set
DBMCrash ==
    /\ dbmUp = "up"
    /\ dbmPc.step # "idle" \/ dbmOps < MaxDbmOps
    /\ dbmOps' = IF dbmPc.step = "idle" THEN dbmOps + 1 ELSE dbmOps
    /\ dbmUp' = "down"
    /\ index' = <<>>
    /\ dbmPc' = Idle
    /\ dbmResult' = NoResult
    /\ crashAt' = dbmPc.step
    /\ UNCHANGED <<dataFile, walFile, idxFile, expected, tornEver, ioFailEver,
                   deleted, failed>>
    /\ FrameDBM

\* the process ends during the WAL append of set(key, value): only the first
\* n bytes of the record have reached the file
DBMCrashInWalAppend(key, value, n) ==
    /\ dbmUp = "up" /\ dbmPc = Idle
    /\ dbmOps < MaxDbmOps
    /\ dbmOps' = dbmOps + 1
    /\ walFile' = File(walFile.bytes \o SubSeq(Record(key, value), 1, n))
    /\ dbmUp' = "down"
    /\ index' = <<>>
    /\ dbmResult' = NoResult
    /\ tornEver' = TRUE
    /\ crashAt' = "torn"
    /\ deleted' = deleted \ {key}
    /\ failed' = DictDel(failed, key)
    /\ UNCHANGED <<dataFile, idxFile, dbmPc, expected, ioFailEver>>
    /\ FrameDBM

NextDBM ==
    \/ DBMOpen
    \/ \E k \in DbmKeys : DBMGet(k)
    \/ \E k \in DbmKeys, v \in DbmValues : DBMSetWal(k, v)
    \/ DBMSetData
    \/ DBMSetIndex
    \/ DBMSetTruncate
    \/ DBMSetFails
    \/ \E k \in DbmKeys : DBMDelete(k)
    \/ DBMCrash
    \/ \E k \in DbmKeys, v \in DbmValues :
         \E n \in 1..(Len(Record(k, v)) - 1) : DBMCrashInWalAppend(k, v, n)

\* the index file is missing when the store is opened next: it was removed,
\* or the data file was copied without it (the case of _load_index, line 192)
DBMIndexLost ==
    /\ dbmUp = "down"
    /\ idxFile.exists
    /\ idxFile' = [exists |-> FALSE, index |-> <<>>]
    /\ dbmResult' = NoResult
    /\ UNCHANGED <<dbmUp, index, dataFile, walFile, dbmPc, dbmOps, expected,
                   tornEver, ioFailEver, crashAt, deleted, failed>>
    /\ FrameDBM

NextRebuild ==
    \/ NextDBM
    \/ DBMIndexLost

(***************************************************************************)
(* KatamariORM.  The callers and the two background tasks are tasks of one *)
(* event loop: a task runs until it suspends, so each action below is the  *)
(* code between two suspension points.  A task suspends in lock.acquire()  *)
(* when the lock is held, in the file I/O of the transaction log, and in   *)
(* the waits of the TTL scheduler; queue.put on the unbounded queue does   *)
(* not suspend.                                                            *)
(***************************************************************************)
OrmKeys == {"k1", "k2"}
OrmValues == {"x", "y"}
OrmTtls == {0, 1}           \* ttl: 0 stands for None
OrmTasks == 1..NumOrmTasks  \* the callers
TtlTask == 0                \* the task running _process_ttl
NoTask == 0 - 1

NoEntry == [expire_time |-> 0, key |-> "none"]
IdleTask == [pc |-> "idle", key |-> "none", value |-> None, ttl |-> 0,
             current_time |-> 0, entry |-> NoEntry, todo |-> <<>>]
NoOrmResult == [op |-> "none"]

\* LRUCache: `key in cache`, cache[key], and the entries after a read, a
\* write (which evicts the least recently used entry past maxsize) and a del
CacheHas(cache, key) == \E i \in 1..Len(cache) : cache[i].key = key
CacheValue(cache, key) ==
    cache[CHOOSE i \in 1..Len(cache) : cache[i].key = key].value
\* a del that leaves the entry in the cache
CacheKeep(cache, key) == cache
CacheDel(cache, key) == SelectSeq(cache, LAMBDA e : e.key # key)
CacheTouch(cache, key) ==
    Append(CacheDel(cache, key), [key |-> key, value |-> CacheValue(cache, key)])
CacheSet(cache, key, value) ==
    LET c == Append(CacheDel(cache, key), [key |-> key, value |-> value])
    IN IF Len(c) > CacheSize THEN Tail(c) ELSE c

\* heapq: the smallest tuple (expire_time, key) and the heap without it
EntryLess(a, b) ==
    \/ a.expire_time < b.expire_time
    \/ (a.expire_time = b.expire_time /\ a.key = "k1" /\ b.key = "k2")
HeapMinIndex(heap) ==
    CHOOSE i \in 1..Len(heap) :
        \A j \in 1..Len(heap) : ~EntryLess(heap[j], heap[i]) /\ (heap[j] = heap[i] => i <= j)
HeapPop(heap) ==
    LET m == HeapMinIndex(heap)
    IN SubSeq(heap, 1, m - 1) \o SubSeq(heap, m + 1, Len(heap))

\* lines 596 and 561: the key has a TTL and current_time is past it
Expired(key, current_time) ==
    key \in DOMAIN ttl_store /\ current_time > ttl_store[key]

\* a get that does not look at the TTL
ExpiredNever(key, current_time) == FALSE

\* __getitem__, line 596
GetSeesExpired(key, current_time) == Expired(key, current_time)

\* where a task resumes once acquire() has handed it the lock
GrantedPc(pc) ==
    CASE pc = "set_lock" -> "set_log"
      [] pc = "get_lock" -> "get_del"
      [] pc = "del_lock" -> "del_del"
      [] pc = "ttl_lock" -> "ttl_del"
      [] pc = "rb_lock" -> "rb_del"
      [] OTHER -> pc

\* a lock that is taken whether held or not
LockFreeAlways(key) == TRUE

\* lock.acquire(), line 445: the lock is not held, the caller takes it at once
LockFree(key) == lockHolder[key] = NoTask

\* lock.release(): the lock goes to the first waiter, if any
HolderAfterRelease(key) ==
    IF lockWaiters[key] = <<>> THEN NoTask ELSE Head(lockWaiters[key])
WaitersAfterRelease(key) ==
    IF lockWaiters[key] = <<>> THEN <<>> ELSE Tail(lockWaiters[key])
TasksAfterRelease(tasks, key) ==
    IF lockWaiters[key] = <<>> THEN tasks
    ELSE [tasks EXCEPT ![Head(lockWaiters[key])].pc = GrantedPc(@)]

\* history: what the write that takes the lock is going to leave for the key
\* (`waited`: the write had to wait for the lock)
NoAcq == [kind |-> "none"]
DelAcq == [kind |-> "del", waited |-> FALSE]
SetAcq(value, current_time, ttl) ==
    [kind |-> "set", value |-> value,
     expire |-> IF ttl # 0 THEN current_time + ttl ELSE NoTask, waited |-> FALSE]
AcqOf(task) ==
    IF task.pc = "set_lock"
    THEN [SetAcq(task.value, task.current_time, task.ttl) EXCEPT !.waited = TRUE]
    ELSE [DelAcq EXCEPT !.waited = TRUE]
AcqAfterRelease(acq, key) ==
    IF lockWaiters[key] = <<>> THEN acq
    ELSE [acq EXCEPT ![key] = AcqOf(ormTask[Head(lockWaiters[key])])]

\* a new call runs as the first task that is not inside a call (the tasks
\* are interchangeable)
FreeTask(t) ==
    /\ ormTask[t].pc = "idle"
    /\ \A u \in OrmTasks : u < t => ormTask[u].pc # "idle"

\* the values a set may carry: the values are interchangeable, so the first
\* write of a run carries "x"
SetValues == IF ormOps = 0 THEN {"x"} ELSE OrmValues

InitORM ==
    /\ ormStore = <<>>
    /\ ttl_store = <<>>
    /\ ttl_heap = <<>>
    /\ ttl_event = FALSE
    /\ lru_cache = <<>>
    /\ lockHolder = [k \in OrmKeys |-> NoTask]
    /\ lockWaiters = [k \in OrmKeys |-> <<>>]
    /\ ormTask = [t \in OrmTasks \cup {TtlTask} |-> IdleTask]
    /\ transaction_log = <<>>
    /\ index_update_queue = <<>>
    /\ searchIndex = {}
    /\ ormResult = NoOrmResult
    /\ ormOps = 0
    /\ ormFails = 0
    /\ lastAcq = [k \in OrmKeys |-> NoAcq]
    /\ lastDone = [k \in OrmKeys |-> None]

\* the body of __delitem__, lines 611-617, run by the holder of the key's lock
DelBody(key) ==
    /\ ormStore' = DictDel(ormStore, key)
    /\ index_update_queue' =
            IF key \in DOMAIN ormStore
            THEN Append(index_update_queue, <<"delete", key>>)
            ELSE index_update_queue
    /\ ttl_store' = DictDel(ttl_store, key)
    /\ lru_cache' = CacheDel(lru_cache, key)
    /\ lastDone' = [lastDone EXCEPT ![key] = None]

\* __setitem__, lines 554-557: the call reads the clock and acquires the
\* key's lock, at once or after waiting; it then suspends in start_transaction
OrmSetStart(t, key, value, ttl) ==
    /\ FreeTask(t)
    /\ ormOps < MaxOrmOps
    /\ ormOps' = ormOps + 1
    /\ IF LockFree(key)
       THEN /\ lockHolder' = [lockHolder EXCEPT ![key] = t]
            /\ ormTask' = [ormTask EXCEPT ![t] =
                    [IdleTask EXCEPT !.pc = "set_log", !.key = key, !.value = value,
                                     !.ttl = ttl, !.current_time = now]]
            /\ lastAcq' = [lastAcq EXCEPT ![key] = SetAcq(value, now, ttl)]
            /\ UNCHANGED lockWaiters
       ELSE /\ lockWaiters' = [lockWaiters EXCEPT ![key] = Append(@, t)]
            /\ ormTask' = [ormTask EXCEPT ![t] =
                    [IdleTask EXCEPT !.pc = "set_lock", !.key = key, !.value = value,
                                     !.ttl = ttl, !.current_time = now]]
            /\ UNCHANGED <<lockHolder, lastAcq>>
    /\ ormResult' = NoOrmResult
    /\ UNCHANGED lastDone
    /\ UNCHANGED <<now, ormStore, ttl_store, ttl_heap, ttl_event, lru_cache,
                   transaction_log, index_update_queue, searchIndex>>
    /\ UNCHANGED ormFails
    /\ FrameORM

\* __setitem__, lines 559-587: the log entry is written; then either the
\* key is found expired and __delitem__ waits for the lock this very task
\* holds, or the store, the cache and the TTL are updated, the index update
\* is queued, and the task suspends in commit_transaction
OrmSetWrite(t) ==
    /\ ormTask[t].pc = "set_log"
    /\ LET key == ormTask[t].key
           value == ormTask[t].value
           expire_time == ormTask[t].current_time + ormTask[t].ttl
       IN /\ transaction_log' = Append(transaction_log, [key |-> key, task |-> t])
          /\ IF Expired(key, ormTask[t].current_time)
             THEN /\ lockWaiters' = [lockWaiters EXCEPT ![key] = Append(@, t)]
                  /\ ormTask' = [ormTask EXCEPT ![t].pc = "set_del_lock"]
                  /\ UNCHANGED <<ormStore, ttl_store, ttl_heap, ttl_event, lru_cache,
                                 index_update_queue>>
             ELSE /\ ormStore' = DictSet(ormStore, key, value)
                  /\ lru_cache' = CacheSet(lru_cache, key, value)
                  /\ IF ormTask[t].ttl # 0
                     THEN /\ ttl_store' = DictSet(ttl_store, key, expire_time)
                          /\ ttl_heap' = Append(ttl_heap,
                                    [expire_time |-> expire_time, key |-> key])
                          /\ ttl_event' = TRUE
                     ELSE /\ ttl_store' = DictDel(ttl_store, key)
                          /\ UNCHANGED <<ttl_heap, ttl_event>>
                  /\ index_update_queue' = Append(index_update_queue, <<"update", key>>)
                  /\ ormTask' = [ormTask EXCEPT ![t].pc = "set_commit"]
                  /\ UNCHANGED lockWaiters
    /\ ormResult' = NoOrmResult
    /\ UNCHANGED <<now, lockHolder, searchIndex, ormOps, lastAcq, lastDone>>
    /\ UNCHANGED ormFails
    /\ FrameORM

\* __setitem__, line 587 and the exit of lock_key: the log is cleared and
\* the lock released; the call returns
OrmSetCommit(t) ==
    /\ ormTask[t].pc = "set_commit"
    /\ transaction_log' = <<>>
    /\ lastDone' = [lastDone EXCEPT ![ormTask[t].key] = ormTask[t].value]
    /\ lastAcq' = AcqAfterRelease(lastAcq, ormTask[t].key)
    /\ lockHolder' = [lockHolder EXCEPT ![ormTask[t].key] = HolderAfterRelease(ormTask[t].key)]
    /\ lockWaiters' = [lockWaiters EXCEPT ![ormTask[t].key] = WaitersAfterRelease(ormTask[t].key)]
    /\ ormTask' = TasksAfterRelease([ormTask EXCEPT ![t] = IdleTask], ormTask[t].key)
    /\ ormResult' = NoOrmResult
    /\ UNCHANGED <<now, ormStore, ttl_store, ttl_heap, ttl_event, lru_cache,
                   index_update_queue, searchIndex, ormOps>>
    /\ UNCHANGED ormFails
    /\ FrameORM

\* __setitem__, lines 587-591: commit_transaction raises (the log file cannot
\* be opened, or is opened, which empties it, and then not truncated); the
\* handler logs the error and suspends in the read_log of rollback_transaction
OrmSetFails(t) ==
    /\ ormTask[t].pc = "set_commit"
    /\ ormFails < MaxOrmFails
    /\ ormFails' = ormFails + 1
    /\ \E emptied \in BOOLEAN :
            transaction_log' = IF emptied THEN <<>> ELSE transaction_log
    /\ ormTask' = [ormTask EXCEPT ![t].pc = "rb_read"]
    /\ ormResult' = NoOrmResult
    /\ UNCHANGED <<now, ormStore, ttl_store, ttl_heap, ttl_event, lru_cache, lockHolder,
                   lockWaiters, index_update_queue, searchIndex, ormOps, lastAcq, lastDone>>
    /\ FrameORM

\* what __delitem__ changes, and its body (lines 611-617) as a function of it
OrmState ==
    [store |-> ormStore, ttl |-> ttl_store, cache |-> lru_cache,
     queue |-> index_update_queue, done |-> lastDone, acq |-> lastAcq]
Deleted(st, key) ==
    [store |-> DictDel(st.store, key),
     queue |-> IF key \in DOMAIN st.store
               THEN Append(st.queue, <<"delete", key>>) ELSE st.queue,
     ttl |-> DictDel(st.ttl, key),
     cache |-> CacheDel(st.cache, key),
     done |-> [st.done EXCEPT ![key] = None],
     acq |-> [st.acq EXCEPT ![key] = DelAcq]]
ApplyOrmState(st) ==
    /\ ormStore' = st.store
    /\ ttl_store' = st.ttl
    /\ lru_cache' = st.cache
    /\ index_update_queue' = st.queue
    /\ lastDone' = st.done
    /\ lastAcq' = st.acq

\* rollback_transaction, lines 465-466: the keys of the log are deleted in
\* order, without suspending, up to the first key whose lock is held
RECURSIVE RollbackRun(_, _, _)
RollbackRun(todo, st, holder) ==
    IF todo = <<>> \/ holder[Head(todo)] # NoTask
    THEN [todo |-> todo, st |-> st]
    ELSE RollbackRun(Tail(todo), Deleted(st, Head(todo)), holder)

\* rollback_transaction, lines 464-466: the log has been read; its keys are
\* deleted, and at a key whose lock is held (the own key's lock always is)
\* the task waits in acquire()
OrmRollbackRead(t) ==
    /\ ormTask[t].pc = "rb_read"
    /\ LET todo == [i \in 1..Len(transaction_log) |-> transaction_log[i].key]
           r == RollbackRun(todo, OrmState, lockHolder)
       IN /\ ApplyOrmState(r.st)
          /\ IF r.todo = <<>>
             THEN /\ ormTask' = [ormTask EXCEPT ![t].pc = "rb_clear", ![t].todo = <<>>]
                  /\ UNCHANGED lockWaiters
             ELSE /\ ormTask' = [ormTask EXCEPT ![t].pc = "rb_lock", ![t].todo = r.todo]
                  /\ lockWaiters' = [lockWaiters EXCEPT ![Head(r.todo)] = Append(@, t)]
    /\ ormResult' = NoOrmResult
    /\ UNCHANGED <<now, ttl_heap, ttl_event, lockHolder, transaction_log, searchIndex,
                   ormOps>>
    /\ UNCHANGED ormFails
    /\ FrameORM

\* rollback_transaction, lines 465-466, once the lock of the key it waited
\* for has been handed over: that key is deleted and its lock released, and
\* the deletes go on
OrmRollbackGranted(t) ==
    /\ ormTask[t].pc = "rb_del"
    /\ LET key == Head(ormTask[t].todo)
           holder == [lockHolder EXCEPT ![key] = HolderAfterRelease(key)]
           waiters == [lockWaiters EXCEPT ![key] = WaitersAfterRelease(key)]
           tasks == TasksAfterRelease(ormTask, key)
           st == [Deleted(OrmState, key) EXCEPT !.acq = AcqAfterRelease(lastAcq, key)]
           r == RollbackRun(Tail(ormTask[t].todo), st, holder)
       IN /\ ApplyOrmState(r.st)
          /\ lockHolder' = holder
          /\ IF r.todo = <<>>
             THEN /\ ormTask' = [tasks EXCEPT ![t].pc = "rb_clear", ![t].todo = <<>>]
                  /\ lockWaiters' = waiters
             ELSE /\ ormTask' = [tasks EXCEPT ![t].pc = "rb_lock", ![t].todo = r.todo]
                  /\ lockWaiters' = [waiters EXCEPT ![Head(r.todo)] = Append(@, t)]
    /\ ormResult' = NoOrmResult
    /\ UNCHANGED <<now, ttl_heap, ttl_event, transaction_log, searchIndex, ormOps>>
    /\ UNCHANGED ormFails
    /\ FrameORM

\* rollback_transaction, line 467, and the exit of lock_key: the log is
\* cleared, the lock of the set's key released, and the set returns
OrmRollbackClear(t) ==
    /\ ormTask[t].pc = "rb_clear"
    /\ transaction_log' = <<>>
    /\ lockHolder' = [lockHolder EXCEPT ![ormTask[t].key] = HolderAfterRelease(ormTask[t].key)]
    /\ lockWaiters' = [lockWaiters EXCEPT ![ormTask[t].key] = WaitersAfterRelease(ormTask[t].key)]
    /\ ormTask' = TasksAfterRelease([ormTask EXCEPT ![t] = IdleTask], ormTask[t].key)
    /\ lastAcq' = AcqAfterRelease(lastAcq, ormTask[t].key)
    /\ lastDone' = [lastDone EXCEPT ![ormTask[t].key] = ormTask[t].value]
    /\ ormResult' = [op |-> "set_failed", key |-> ormTask[t].key]
    /\ UNCHANGED <<now, ormStore, ttl_store, ttl_heap, ttl_event, lru_cache,
                   index_update_queue, searchIndex, ormOps>>
    /\ UNCHANGED ormFails
    /\ FrameORM

\* what get returns when the key is not expired, lines 600-606
GetValue(key) ==
    IF CacheHas(lru_cache, key) THEN CacheValue(lru_cache, key)
    ELSE IF key \in DOMAIN ormStore THEN ormStore[key]
    ELSE None

\* the result of a get: `expire` and `stored` are history, the expiry and
\* the stored value of the key when get was called
GetResult(key, value, current_time, expire, stored) ==
    [op |-> "get", key |-> key, value |-> value, current_time |-> current_time,
     expire |-> expire, stored |-> stored]
ExpireOf(key) == IF key \in DOMAIN ttl_store THEN ttl_store[key] ELSE NoTask
StoredOf(key) == IF key \in DOMAIN ormStore THEN ormStore[key] ELSE None

\* __getitem__: an expired key is deleted (at once when its lock is free,
\* else after waiting for it) and None returned; otherwise the value comes
\* from the cache or from the store
OrmGet(t, key) ==
    /\ FreeTask(t)
    /\ IF GetSeesExpired(key, now)
       THEN IF LockFree(key)
            THEN /\ DelBody(key)
                 /\ lastAcq' = [lastAcq EXCEPT ![key] = DelAcq]
                 /\ ormResult' = GetResult(key, None, now, ExpireOf(key), StoredOf(key))
                 /\ UNCHANGED <<lockWaiters, ormTask>>
            ELSE /\ lockWaiters' = [lockWaiters EXCEPT ![key] = Append(@, t)]
                 /\ ormTask' = [ormTask EXCEPT ![t] =
                        [IdleTask EXCEPT !.pc = "get_lock", !.key = key,
                                         !.current_time = now,
                                         !.entry = [expire_time |-> ExpireOf(key),
                                                    key |-> StoredOf(key)]]]
                 /\ ormResult' = NoOrmResult
                 /\ UNCHANGED <<ormStore, ttl_store, lru_cache, index_update_queue,
                                lastAcq, lastDone>>
       ELSE /\ ormResult' = GetResult(key, GetValue(key), now, ExpireOf(key), StoredOf(key))
            /\ lru_cache' =
                    IF CacheHas(lru_cache, key) THEN CacheTouch(lru_cache, key)
                    ELSE IF key \in DOMAIN ormStore
                    THEN CacheSet(lru_cache, key, ormStore[key])
                    ELSE lru_cache
            /\ UNCHANGED <<ormStore, ttl_store, index_update_queue, lockWaiters, ormTask,
                           lastAcq, lastDone>>
    /\ UNCHANGED <<now, ttl_heap, ttl_event, lockHolder, transaction_log, searchIndex,
                   ormOps>>
    /\ UNCHANGED ormFails
    /\ FrameORM

\* __getitem__, lines 597-598, once the lock has been handed over
OrmGetDelete(t) ==
    /\ ormTask[t].pc = "get_del"
    /\ DelBody(ormTask[t].key)
    /\ lockHolder' = [lockHolder EXCEPT ![ormTask[t].key] = HolderAfterRelease(ormTask[t].key)]
    /\ lockWaiters' = [lockWaiters EXCEPT ![ormTask[t].key] = WaitersAfterRelease(ormTask[t].key)]
    /\ ormTask' = TasksAfterRelease([ormTask EXCEPT ![t] = IdleTask], ormTask[t].key)
    /\ ormResult' = GetResult(ormTask[t].key, None, ormTask[t].current_time,
                              ormTask[t].entry.expire_time, ormTask[t].entry.key)
    /\ lastAcq' = AcqAfterRelease(lastAcq, ormTask[t].key)
    /\ UNCHANGED <<now, ttl_heap, ttl_event, transaction_log, searchIndex, ormOps>>
    /\ UNCHANGED ormFails
    /\ FrameORM

\* __delitem__ called by a client
OrmDelete(t, key) ==
    /\ FreeTask(t)
    /\ ormOps < MaxOrmOps
    /\ ormOps' = ormOps + 1
    /\ IF LockFree(key)
       THEN /\ DelBody(key)
            /\ lastAcq' = [lastAcq EXCEPT ![key] = DelAcq]
            /\ UNCHANGED <<lockWaiters, ormTask>>
       ELSE /\ lockWaiters' = [lockWaiters EXCEPT ![key] = Append(@, t)]
            /\ ormTask' = [ormTask EXCEPT ![t] =
                    [IdleTask EXCEPT !.pc = "del_lock", !.key = key]]
            /\ UNCHANGED <<ormStore, ttl_store, lru_cache, index_update_queue,
                           lastAcq, lastDone>>
    /\ ormResult' = NoOrmResult
    /\ UNCHANGED <<now, ttl_heap, ttl_event, lockHolder, transaction_log, searchIndex>>
    /\ UNCHANGED ormFails
    /\ FrameORM

\* __delitem__ once the lock has been handed over (a client's call, or the
\* TTL scheduler's at line 678)
OrmDeleteGranted(t) ==
    /\ ormTask[t].pc \in {"del_del", "ttl_del"}
    /\ DelBody(ormTask[t].key)
    /\ lockHolder' = [lockHolder EXCEPT ![ormTask[t].key] = HolderAfterRelease(ormTask[t].key)]
    /\ lockWaiters' = [lockWaiters EXCEPT ![ormTask[t].key] = WaitersAfterRelease(ormTask[t].key)]
    /\ ormTask' = TasksAfterRelease([ormTask EXCEPT ![t] = IdleTask], ormTask[t].key)
    /\ lastAcq' = AcqAfterRelease(lastAcq, ormTask[t].key)
    /\ ormResult' = NoOrmResult
    /\ UNCHANGED <<now, ttl_heap, ttl_event, transaction_log, searchIndex, ormOps>>
    /\ UNCHANGED ormFails
    /\ FrameORM

\* _process_ttl, lines 660-668: with an empty heap the scheduler clears the
\* event and waits for it; otherwise it peeks the smallest entry and, when
\* that is not due yet, waits for the event with a timeout
TtlPlan ==
    /\ ormTask[TtlTask].pc = "idle"
    /\ IF ttl_heap = <<>>
       THEN /\ ttl_event' = FALSE
            /\ ormTask' = [ormTask EXCEPT ![TtlTask].pc = "ttl_wait"]
       ELSE /\ ttl_heap[HeapMinIndex(ttl_heap)].expire_time - now > 0
            /\ ormTask' = [ormTask EXCEPT ![TtlTask].pc = "ttl_sleep",
                                          ![TtlTask].entry = ttl_heap[HeapMinIndex(ttl_heap)]]
            /\ UNCHANGED ttl_event
    /\ ormResult' = NoOrmResult
    /\ UNCHANGED <<now, ormStore, ttl_store, ttl_heap, lru_cache, lockHolder, lockWaiters,
                   transaction_log, index_update_queue, searchIndex, ormOps,
                   lastAcq, lastDone>>
    /\ UNCHANGED ormFails
    /\ FrameORM

\* _process_ttl, lines 662-663 and 670-671: the event is set, the wait
\* returns and the loop starts over (nothing clears the event here)
TtlWake ==
    /\ ormTask[TtlTask].pc \in {"ttl_wait", "ttl_sleep"}
    /\ ttl_event
    /\ ormTask' = [ormTask EXCEPT ![TtlTask] = IdleTask]
    /\ ormResult' = NoOrmResult
    /\ UNCHANGED <<now, ormStore, ttl_store, ttl_heap, ttl_event, lru_cache, lockHolder,
                   lockWaiters, transaction_log, index_update_queue, searchIndex, ormOps, lastAcq, lastDone>>
    /\ UNCHANGED ormFails
    /\ FrameORM

\* _process_ttl, lines 665-678: the smallest entry is due (at once, or when
\* the timeout of the wait fires with the event not set): the heap is popped
\* and, when the entry still is the key's expiry, the key deleted
TtlExpire ==
    /\ \/ /\ ormTask[TtlTask].pc = "idle"
          /\ ttl_heap # <<>>
          /\ ttl_heap[HeapMinIndex(ttl_heap)].expire_time - now <= 0
       \/ /\ ormTask[TtlTask].pc = "ttl_sleep"
          /\ ~ttl_event
          /\ now >= ormTask[TtlTask].entry.expire_time
    /\ LET e == IF ormTask[TtlTask].pc = "idle"
                THEN ttl_heap[HeapMinIndex(ttl_heap)] ELSE ormTask[TtlTask].entry
       IN /\ ttl_heap' = HeapPop(ttl_heap)
          /\ IF e.key \in DOMAIN ttl_store /\ ttl_store[e.key] = e.expire_time
             THEN IF LockFree(e.key)
                  THEN /\ DelBody(e.key)
                       /\ lastAcq' = [lastAcq EXCEPT ![e.key] = DelAcq]
                       /\ ormTask' = [ormTask EXCEPT ![TtlTask] = IdleTask]
                       /\ UNCHANGED lockWaiters
                  ELSE /\ lockWaiters' = [lockWaiters EXCEPT ![e.key] = Append(@, TtlTask)]
                       /\ ormTask' = [ormTask EXCEPT ![TtlTask] =
                                [IdleTask EXCEPT !.pc = "ttl_lock", !.key = e.key,
                                                 !.entry = e]]
                       /\ UNCHANGED <<ormStore, ttl_store, lru_cache, index_update_queue,
                                      lastAcq, lastDone>>
             ELSE /\ ormTask' = [ormTask EXCEPT ![TtlTask] = IdleTask]
                  /\ UNCHANGED <<ormStore, ttl_store, lru_cache, index_update_queue,
                                 lockWaiters, lastAcq, lastDone>>
    /\ ormResult' = NoOrmResult
    /\ UNCHANGED <<now, ttl_event, lockHolder, transaction_log, searchIndex, ormOps>>
    /\ UNCHANGED ormFails
    /\ FrameORM

\* a batch whose deletions are not applied
RECURSIVE IndexAfterUpdatesOnly(_, _)
IndexAfterUpdatesOnly(ids, updates) ==
    ids \cup {updates[i][2] : i \in {j \in 1..Len(updates) : updates[j][1] = "update"}}

\* _process_index_updates: one batch, the whole queue, under one writer
RECURSIVE IndexAfter(_, _)
IndexAfter(ids, updates) ==
    IF updates = <<>> THEN ids
    ELSE IndexAfter(IF Head(updates)[1] = "update"
                    THEN ids \cup {Head(updates)[2]}
                    ELSE ids \ {Head(updates)[2]},
                    Tail(updates))

OrmIndexBatch ==
    /\ index_update_queue # <<>>
    /\ searchIndex' = IndexAfter(searchIndex, index_update_queue)
    /\ index_update_queue' = <<>>
    /\ ormResult' = NoOrmResult
    /\ UNCHANGED <<now, ormStore, ttl_store, ttl_heap, ttl_event, lru_cache, lockHolder,
                   lockWaiters, ormTask, transaction_log, ormOps, lastAcq, lastDone>>
    /\ UNCHANGED ormFails
    /\ FrameORM

TickORM ==
    /\ Tick
    /\ ormResult' = NoOrmResult
    /\ UNCHANGED <<ormStore, ttl_store, ttl_heap, ttl_event, lru_cache, lockHolder,
                   lockWaiters, ormTask, transaction_log, index_update_queue,
                   searchIndex, ormOps, lastAcq, lastDone>>
    /\ UNCHANGED ormFails
    /\ FrameORM

NextORM ==
    \/ TickORM
    \/ \E t \in OrmTasks, k \in OrmKeys, v \in SetValues, ttl \in OrmTtls :
            OrmSetStart(t, k, v, ttl)
    \/ \E t \in OrmTasks : OrmSetWrite(t)
    \/ \E t \in OrmTasks : OrmSetCommit(t)
    \/ \E t \in OrmTasks : OrmSetFails(t)
    \/ \E t \in OrmTasks : OrmRollbackRead(t)
    \/ \E t \in OrmTasks : OrmRollbackGranted(t)
    \/ \E t \in OrmTasks : OrmRollbackClear(t)
    \/ \E t \in OrmTasks, k \in OrmKeys : OrmGet(t, k)
    \/ \E t \in OrmTasks : OrmGetDelete(t)
    \/ \E t \in OrmTasks, k \in OrmKeys : OrmDelete(t, k)
    \/ \E t \in OrmTasks \cup {TtlTask} : OrmDeleteGranted(t)
    \/ TtlPlan
    \/ TtlWake
    \/ TtlExpire
    \/ OrmIndexBatch

(***************************************************************************)
(* KatamariMQServer.  The on-disk engine is taken as the mapping it keeps  *)
(* (self.db[key] = value); begin_transaction and commit around a write add *)
(* and remove the same descriptor and are left out, as are the heartbeat   *)
(* timestamps.                                                             *)
(***************************************************************************)
WorkerIds == 1..NumWorkers
\* the registry of three workers with workloads up to 2 and the list of nine
\* items that the sharding example is about
ExampleWorkers == 1..3
ExampleWorkloads == 0..2
ExampleData == 9
ExampleJob == 1
Workloads == 0..MaxWorkload
JobIds == {1, 2}
DataOf(len) == [i \in 1..len |-> i]    \* the data list of a job: len items

MQOk == "ok"
MQKeyError == "KeyError"
MQValueError == "ValueError"
MQConnectionClosed == "ConnectionClosed"

NoCall == [pc |-> "none"]
NoMqResult == [op |-> "none"]

Registered == {workers[i].id : i \in 1..Len(workers)}
WorkloadOf(w) == workers[CHOOSE i \in 1..Len(workers) : workers[i].id = w].workload

\* self.workers[worker_id] = {...}: a new key goes last, a known key keeps
\* its place
SetWorker(ws, w, workload) ==
    IF \E i \in 1..Len(ws) : ws[i].id = w
    THEN [i \in 1..Len(ws) |-> IF ws[i].id = w THEN [id |-> w, workload |-> workload]
                                                ELSE ws[i]]
    ELSE Append(ws, [id |-> w, workload |-> workload])

\* shard_data, lines 64-66: slices of len(data) // num_shards items, taken
\* at every multiple of that size; range() raises on a step of 0
CeilDiv(a, b) == (a + b - 1) \div b
ShardData(data, num_shards) ==
    LET shard_size == Len(data) \div num_shards
    IN IF shard_size = 0
       THEN [outcome |-> MQValueError, shards |-> <<>>]
       ELSE [outcome |-> MQOk,
             shards |-> [i \in 1..CeilDiv(Len(data), shard_size) |->
                            SubSeq(data, (i - 1) * shard_size + 1,
                                   Min(i * shard_size, Len(data)))]]

\* the worker ids in insertion order, unsorted
InsertionOrder(ws) == [i \in 1..Len(ws) |-> ws[i].id]

\* sorted(self.workers.keys(), key=workload), line 75: ascending, and stable
RECURSIVE SortedByWorkload(_)
SortedByWorkload(ws) ==
    IF ws = <<>> THEN <<>>
    ELSE LET m == CHOOSE i \in 1..Len(ws) :
                    \A j \in 1..Len(ws) :
                        \/ ws[i].workload < ws[j].workload
                        \/ (ws[i].workload = ws[j].workload /\ i <= j)
         IN <<ws[m].id>> \o SortedByWorkload(SubSeq(ws, 1, m - 1) \o SubSeq(ws, m + 1, Len(ws)))

\* min(self.workers, key=workload), line 128: the first of the least loaded
LeastLoaded(ws) == SortedByWorkload(ws)[1]

InitMQ ==
    /\ workers = <<>>
    /\ connOpen = {}
    /\ dbWorkers = <<>>
    /\ dbShards = <<>>
    /\ frames = [w \in WorkerIds \cup ExampleWorkers |-> <<>>]
    /\ worker_data_shards = <<>>
    /\ mqCall = NoCall
    /\ mqResult = NoMqResult
    /\ mqOps = 0

\* handle_worker, lines 151-152, and register_worker: the first frame of a
\* new connection is the worker id; the worker is entered with workload 0
MQRegister(w) ==
    /\ w \notin connOpen
    /\ connOpen' = connOpen \cup {w}
    /\ workers' = SetWorker(workers, w, 0)
    /\ dbWorkers' = DictSet(dbWorkers, w, 0)
    /\ mqResult' = [op |-> "register", worker |-> w]
    /\ UNCHANGED <<dbShards, frames, worker_data_shards, mqCall, mqOps>>
    /\ FrameMQ

\* a heartbeat that reaches the registry and not the store
MQHeartbeatNotPersisted(w, workload) ==
    /\ w \in connOpen
    /\ IF w \in Registered
       THEN /\ workers' = SetWorker(workers, w, workload)
            /\ UNCHANGED dbWorkers
       ELSE UNCHANGED <<workers, dbWorkers>>
    /\ mqResult' = [op |-> "heartbeat", worker |-> w, workload |-> workload]
    /\ UNCHANGED <<connOpen, dbShards, frames, worker_data_shards, mqCall, mqOps>>
    /\ FrameMQ

\* receive_messages, lines 136-140, and update_heartbeat: a frame with a
\* workload from a connected worker
MQHeartbeat(w, workload) ==
    /\ w \in connOpen
    /\ IF w \in Registered
       THEN /\ workers' = SetWorker(workers, w, workload)
            /\ dbWorkers' = DictSet(dbWorkers, w, workload)
       ELSE UNCHANGED <<workers, dbWorkers>>
    /\ mqResult' = [op |-> "heartbeat", worker |-> w, workload |-> workload]
    /\ UNCHANGED <<connOpen, dbShards, frames, worker_data_shards, mqCall, mqOps>>
    /\ FrameMQ

\* update_heartbeat, lines 45-58, called for any worker id: an id that is
\* not in self.workers is ignored
MQUpdateHeartbeat(w, workload) ==
    /\ IF w \in Registered
       THEN /\ workers' = SetWorker(workers, w, workload)
            /\ dbWorkers' = DictSet(dbWorkers, w, workload)
       ELSE UNCHANGED <<workers, dbWorkers>>
    /\ mqResult' = [op |-> "update_heartbeat", worker |-> w, workload |-> workload]
    /\ UNCHANGED <<connOpen, dbShards, frames, worker_data_shards, mqCall, mqOps>>
    /\ FrameMQ

\* receive_messages, line 135, and handle_worker, line 153: the connection
\* closes or fails; the loop ends and the handler returns (or raises)
MQDisconnect(w) ==
    /\ w \in connOpen
    /\ connOpen' = connOpen \ {w}
    /\ mqResult' = [op |-> "disconnect", worker |-> w]
    /\ UNCHANGED <<workers, dbWorkers, dbShards, frames, worker_data_shards, mqCall, mqOps>>
    /\ FrameMQ

\* receive_messages, line 136: a frame that is not valid JSON makes
\* json.loads raise; nothing catches it, so the loop and handle_worker end
\* with the exception and the frames that follow are never read
MQMalformedFrame(w) ==
    /\ w \in connOpen
    /\ connOpen' = connOpen \ {w}
    /\ mqResult' = [op |-> "malformed", worker |-> w, loads |-> workers]
    /\ UNCHANGED <<workers, dbWorkers, dbShards, frames, worker_data_shards, mqCall, mqOps>>
    /\ FrameMQ

\* a call of shard_data
MQShardData(len, num_shards) ==
    /\ mqOps < MaxMqOps
    /\ mqOps' = mqOps + 1
    /\ mqResult' = [op |-> "shard_data", data |-> DataOf(len), num_shards |-> num_shards,
                    res |-> ShardData(DataOf(len), num_shards)]
    /\ UNCHANGED <<workers, connOpen, dbWorkers, dbShards, frames, worker_data_shards, mqCall>>
    /\ FrameMQ

\* dispatch_pipeline, lines 109-114, with a payload {pipeline_id, jobs, data}:
\* the job_data it builds has neither 'data' nor 'job_id', so assign_shards
\* raises KeyError at line 74 as soon as a worker is registered
MQDispatchPipeline(len) ==
    /\ mqOps < MaxMqOps
    /\ mqOps' = mqOps + 1
    /\ mqResult' = [op |-> "dispatch_pipeline", data |-> DataOf(len),
                    registered |-> Registered,
                    outcome |-> IF workers # <<>> THEN MQKeyError ELSE MQOk]
    /\ UNCHANGED <<workers, connOpen, dbWorkers, dbShards, frames, worker_data_shards, mqCall>>
    /\ FrameMQ


\* every shard goes to the least loaded worker
TargetLeastLoaded(call) == call.order[1]

\* assign_shards, line 79: the worker of the shard the call is at
Target(call) == call.order[(call.i % Len(call.order)) + 1]

AssignResult(job_id, outcome) ==
    [op |-> "assign_shards", job_id |-> job_id, outcome |-> outcome]

\* assign_shards, lines 78-86: one turn of the loop up to the point where
\* send suspends: the shard's record is persisted, then the frame is handed
\* to the worker's websocket, which raises when the connection is closed;
\* past the last shard the call returns
AssignIteration(call) ==
    IF call.i = Len(call.shards)
    THEN /\ mqCall' = [call EXCEPT !.pc = "done"]
         /\ mqResult' = AssignResult(call.job_id, MQOk)
         /\ UNCHANGED dbShards
    ELSE /\ dbShards' = DictSet(dbShards, <<call.job_id, call.i>>,
                                [shard_data |-> call.shards[call.i + 1],
                                 assigned_to |-> Target(call)])
         /\ IF Target(call) \in connOpen
            THEN /\ mqCall' = [call EXCEPT !.pc = "send"]
                 /\ mqResult' = NoMqResult
            ELSE /\ mqCall' = [call EXCEPT !.pc = "done"]
                 /\ mqResult' = AssignResult(call.job_id, MQConnectionClosed)

\* assign_shards called with a job_data that has 'job_id' and 'data', lines
\* 73-86: the data is sharded for the workers registered now and the workers
\* sorted by workload; `loads` keeps the registry the call saw
MQAssignStart(job_id, len) ==
    /\ mqOps < MaxMqOps
    /\ mqCall.pc \in {"none", "done"}
    /\ mqOps' = mqOps + 1
    /\ LET res == ShardData(DataOf(len), Len(workers))
           call == [pc |-> "start", job_id |-> job_id, data |-> DataOf(len),
                    loads |-> workers, order |-> SortedByWorkload(workers),
                    shards |-> res.shards, i |-> 0, assigned |-> <<>>]
       IN IF workers = <<>>
          THEN /\ mqCall' = NoCall
               /\ mqResult' = AssignResult(job_id, MQOk)
               /\ UNCHANGED dbShards
          ELSE IF res.outcome # MQOk
          THEN /\ mqCall' = [call EXCEPT !.pc = "done"]
               /\ mqResult' = AssignResult(job_id, res.outcome)
               /\ UNCHANGED dbShards
          ELSE AssignIteration(call)
    /\ UNCHANGED <<workers, connOpen, dbWorkers, frames, worker_data_shards>>
    /\ FrameMQ

\* assign_shards, lines 86-93 and the next turn of the loop: the send
\* returns (the frame is on the wire) and the assignment is tracked, or the
\* send raises because the connection went down meanwhile
MQAssignSent ==
    /\ mqCall.pc = "send"
    /\ LET w == Target(mqCall)
           shard_key == <<mqCall.job_id, mqCall.i>>
       IN IF w \in connOpen
          THEN /\ frames' = [frames EXCEPT ![w] =
                        Append(@, [type |-> "shard", job_id |-> mqCall.job_id,
                                   shard_key |-> shard_key])]
               /\ worker_data_shards' =
                        DictSet(worker_data_shards, w,
                                Append(IF w \in DOMAIN worker_data_shards
                                       THEN worker_data_shards[w] ELSE <<>>, shard_key))
               /\ AssignIteration([mqCall EXCEPT !.i = @ + 1, !.assigned = Append(@, w)])
          ELSE /\ mqCall' = [mqCall EXCEPT !.pc = "done"]
               /\ mqResult' = AssignResult(mqCall.job_id, MQConnectionClosed)
               /\ UNCHANGED <<frames, worker_data_shards, dbShards>>
    /\ UNCHANGED <<workers, connOpen, dbWorkers, mqOps>>
    /\ FrameMQ

\* dispatch_lambda, lines 120-129, and send_job_to_worker: min() raises on
\* an empty registry; the frame goes to the least loaded worker, and the log
\* line after the send (line 103) raises KeyError, the frame having no job_id
MQDispatchLambda ==
    /\ mqOps < MaxMqOps
    /\ mqOps' = mqOps + 1
    /\ IF workers = <<>>
       THEN /\ mqResult' = [op |-> "dispatch_lambda", loads |-> workers, before |-> frames,
                            outcome |-> MQValueError]
            /\ UNCHANGED frames
       ELSE IF LeastLoaded(workers) \in connOpen
       THEN /\ frames' = [frames EXCEPT ![LeastLoaded(workers)] =
                        Append(@, [type |-> "lambda"])]
            /\ mqResult' = [op |-> "dispatch_lambda", loads |-> workers, before |-> frames,
                            outcome |-> MQKeyError]
       ELSE /\ mqResult' = [op |-> "dispatch_lambda", loads |-> workers, before |-> frames,
                            outcome |-> MQConnectionClosed]
            /\ UNCHANGED frames
    /\ UNCHANGED <<workers, connOpen, dbWorkers, dbShards, worker_data_shards, mqCall>>
    /\ FrameMQ

NextMQ ==
    \/ \E w \in WorkerIds : MQRegister(w)
    \/ \E w \in WorkerIds, workload \in Workloads : MQHeartbeat(w, workload)
    \/ \E w \in WorkerIds : MQDisconnect(w)
    \/ \E w \in WorkerIds : MQMalformedFrame(w)
    \/ \E len \in 0..MaxDataLen, n \in WorkerIds : MQShardData(len, n)
    \/ \E len \in 0..MaxDataLen : MQDispatchPipeline(len)
    \/ \E job_id \in JobIds, len \in 0..MaxDataLen : MQAssignStart(job_id, len)
    \/ MQAssignSent
    \/ MQDispatchLambda

\* the connections and the registry of the server, with update_heartbeat
\* called for any worker id
NextRegistry ==
    \/ \E w \in WorkerIds : MQRegister(w)
    \/ \E w \in WorkerIds, workload \in Workloads : MQHeartbeat(w, workload)
    \/ \E w \in WorkerIds : MQDisconnect(w)
    \/ \E w \in WorkerIds, workload \in Workloads : MQUpdateHeartbeat(w, workload)
    \/ \E w \in WorkerIds : MQMalformedFrame(w)

(***************************************************************************)
(* WorkerNode (src/src/KatamariMQClient.py).  start() runs send_heartbeat   *)
(* and receive_jobs as two tasks of one event loop over one websocket:     *)
(* a heartbeat is sent whenever receive_jobs is suspended, waiting for a   *)
(* frame or inside the sleep of the job it is processing.                  *)
(***************************************************************************)
\* the frames a server can send, by what process_job does with them:
\*   pipeline, lambda, shard: a branch that awaits (lines 40, 69, 90)
\*   shard_missing: a shard whose key is not in the worker's own db (line 88)
\*   unknown: no type and no shard_key (line 92), nothing is awaited
\*   malformed: not JSON, json.loads raises (line 123)
WnFrames == {"pipeline", "lambda", "shard", "shard_missing", "unknown", "malformed"}
WnSuspends == {"pipeline", "lambda", "shard"}

\* receive_jobs awaits process_job before it reads the next frame
ReceiverFreeAlways == TRUE

ReceiverFree == wnJob = "none"

InitWN ==
    /\ wnConn = "new"
    /\ wnWorkload = 0
    /\ wnJob = "none"
    /\ wnInbox = <<>>
    /\ wnReported = <<>>
    /\ wnReceived = 0
    /\ wnCompleted = 0

\* start, lines 98-106
WNStart ==
    /\ wnConn = "new"
    /\ wnConn' = "open"
    /\ UNCHANGED <<wnWorkload, wnJob, wnInbox, wnReported, wnReceived, wnCompleted>>
    /\ FrameWN

\* the server sends a frame (KatamariMQServer.send_job_to_worker)
WNServerSends(frame) ==
    /\ wnConn = "open"
    /\ wnReceived + Len(wnInbox) < MaxWnJobs
    /\ wnInbox' = Append(wnInbox, frame)
    /\ UNCHANGED <<wnConn, wnWorkload, wnJob, wnReported, wnReceived, wnCompleted>>
    /\ FrameWN

\* send_heartbeat, lines 113-114
WNHeartbeat ==
    /\ wnConn = "open"
    /\ Len(wnReported) < MaxBeats
    /\ wnReported' = Append(wnReported, wnWorkload)
    /\ UNCHANGED <<wnConn, wnWorkload, wnJob, wnInbox, wnReceived, wnCompleted>>
    /\ FrameWN

\* receive_jobs, lines 122-126, up to the first await of process_job: the
\* frame is parsed, the workload raised, and the job either suspends, or
\* returns at once (the workload is lowered again), or raises (the workload
\* stays raised, the task ends and start() leaves the connection)
WNReceive ==
    /\ wnConn = "open" /\ ReceiverFree
    /\ wnInbox # <<>>
    /\ wnInbox' = Tail(wnInbox)
    /\ wnReceived' = wnReceived + 1
    /\ LET frame == Head(wnInbox)
       IN CASE frame = "malformed" ->
                 /\ wnConn' = "closed"
                 /\ UNCHANGED <<wnWorkload, wnJob, wnCompleted>>
            [] frame = "shard_missing" ->
                 /\ wnConn' = "closed"
                 /\ wnWorkload' = wnWorkload + 1
                 /\ UNCHANGED <<wnJob, wnCompleted>>
            [] frame = "unknown" ->
                 /\ wnCompleted' = wnCompleted + 1
                 /\ UNCHANGED <<wnConn, wnWorkload, wnJob>>
            [] frame \in WnSuspends ->
                 /\ wnWorkload' = wnWorkload + 1
                 /\ wnJob' = frame
                 /\ UNCHANGED <<wnConn, wnCompleted>>
    /\ UNCHANGED wnReported
    /\ FrameWN

\* receive_jobs, line 126: process_job has returned
WNJobDone ==
    /\ wnConn = "open" /\ wnJob # "none"
    /\ wnWorkload' = wnWorkload - 1
    /\ wnJob' = "none"
    /\ wnCompleted' = wnCompleted + 1
    /\ UNCHANGED <<wnConn, wnInbox, wnReported, wnReceived>>
    /\ FrameWN

\* the connection closes: the async-for of receive_jobs ends and the send
\* of the next heartbeat raises
WNClose ==
    /\ wnConn = "open"
    /\ wnConn' = "closed"
    /\ UNCHANGED <<wnWorkload, wnJob, wnInbox, wnReported, wnReceived, wnCompleted>>
    /\ FrameWN

NextWN ==
    \/ WNStart
    \/ \E frame \in WnFrames : WNServerSends(frame)
    \/ WNHeartbeat
    \/ WNReceive
    \/ WNJobDone
    \/ WNClose

(***************************************************************************)
(* PipelineExecutor over one EventSystem (src/src/KatamariPipelines.py).   *)
(* The executors are tasks of one event loop: execute_pipeline suspends in *)
(* the sleep of run_job and in Event.wait(); save_job and save_pipeline    *)
(* await nothing, and the MVCC writes they make are left out.              *)
(***************************************************************************)
Executors == 1..NumPipelines

\* StateMachine.set_state, lines 63-68: any declared state is accepted,
\* whatever the current one
JobStates == {"Pending", "Running", "Completed", "Failed"}
PipelineStates == {"Scheduled", "Running", "Paused", "Completed"}
SetState(states, current, state) == IF state \in states THEN state ELSE current

PlNone == [pc |-> "none", i |-> 0, n |-> 0]
PlReady == [pc |-> "ready", i |-> 0, n |-> 0]

\* EventSystem.publish, lines 50-54: set() resolves the wait of every task
\* waiting on the event, and clear() resets it at once; a name nobody has
\* subscribed to is ignored
Publish(pcs, event_name) ==
    IF event_name \in plEvents /\ event_name = "job_completed"
    THEN [e \in Executors |-> IF pcs[e].pc = "wait"
                              THEN [pcs[e] EXCEPT !.pc = "woken"] ELSE pcs[e]]
    ELSE pcs

InitPL ==
    /\ plState = [e \in Executors |-> "None"]
    /\ plConfig = [e \in Executors |-> 0]
    /\ plJobs = [e \in Executors |-> <<>>]
    /\ plLoaded = [e \in Executors |-> FALSE]
    /\ plPc = [e \in Executors |-> PlNone]
    /\ plEvents = {}
    /\ plRuns = 0

\* PipelineModel.__init__, lines 82-83, and PipelineExecutor.__init__, lines
\* 127-131: the pipeline is Scheduled, self.jobs is empty and the init_jobs
\* task is created
PLCreate(e, n) ==
    /\ plPc[e] = PlNone
    /\ \A d \in Executors : d < e => plPc[d] # PlNone
    /\ plPc' = [plPc EXCEPT ![e] = PlReady]
    /\ plState' = [plState EXCEPT ![e] = SetState(PipelineStates, "None", "Scheduled")]
    /\ plConfig' = [plConfig EXCEPT ![e] = n]
    /\ UNCHANGED <<plJobs, plLoaded, plEvents, plRuns>>
    /\ FramePL

\* init_jobs and load_jobs_from_config, lines 133-150: one JobModel per
\* entry of the config, each Pending (line 107)
PLInitJobs(e) ==
    /\ plPc[e] # PlNone /\ ~plLoaded[e]
    /\ plLoaded' = [plLoaded EXCEPT ![e] = TRUE]
    /\ plJobs' = [plJobs EXCEPT ![e] = [j \in 1..plConfig[e] |-> "Pending"]]
    /\ UNCHANGED <<plState, plConfig, plPc, plEvents, plRuns>>
    /\ FramePL

\* run_job, lines 154-160: the job is set Running and the call sleeps
RunJob(jobs, e, i) == [jobs EXCEPT ![e][i] = SetState(JobStates, jobs[e][i], "Running")]

\* execute_pipeline, lines 179-187, up to the sleep of the first run_job;
\* the loop runs over the list self.jobs is bound to at that moment, and
\* with no job the call goes on to lines 190-193 and returns
PLExecute(e) ==
    /\ plPc[e] = PlReady
    /\ plRuns < MaxPlRuns
    /\ plRuns' = plRuns + 1
    /\ plEvents' = plEvents \cup {"job_completed"}
    /\ IF plJobs[e] = <<>>
       THEN /\ plState' = [plState EXCEPT ![e] = SetState(PipelineStates, "Running", "Completed")]
            /\ UNCHANGED <<plJobs, plPc>>
       ELSE /\ plState' = [plState EXCEPT ![e] = SetState(PipelineStates, @, "Running")]
            /\ plJobs' = RunJob(plJobs, e, 1)
            /\ plPc' = [plPc EXCEPT ![e] = [pc |-> "sleep", i |-> 1, n |-> Len(plJobs[e])]]
    /\ UNCHANGED <<plConfig, plLoaded>>
    /\ FramePL

\* run_job, lines 161-167 and 175, then execute_pipeline, line 188: the job
\* is set Completed, job_completed is published, and the caller then waits
\* on the event, which publish has already cleared
PLJobCompletes(e) ==
    /\ plPc[e].pc = "sleep"
    /\ plJobs' = [plJobs EXCEPT ![e][plPc[e].i] = SetState(JobStates, @, "Completed")]
    /\ plPc' = [Publish(plPc, "job_completed") EXCEPT ![e].pc = "wait"]
    /\ UNCHANGED <<plState, plConfig, plLoaded, plEvents, plRuns>>
    /\ FramePL

\* run_job, lines 169-175, then execute_pipeline, line 188: the body raised;
\* the job is set Failed and job_failed is published
PLJobFails(e) ==
    /\ plPc[e].pc = "sleep"
    /\ plJobs' = [plJobs EXCEPT ![e][plPc[e].i] = SetState(JobStates, @, "Failed")]
    /\ plPc' = [Publish(plPc, "job_failed") EXCEPT ![e].pc = "wait"]
    /\ UNCHANGED <<plState, plConfig, plLoaded, plEvents, plRuns>>
    /\ FramePL

\* execute_pipeline, lines 186-193, after the wait has been resolved: the
\* next job is run, or the pipeline is set Completed and the call returns
PLResume(e) ==
    /\ plPc[e].pc = "woken"
    /\ IF plPc[e].i < plPc[e].n
       THEN /\ plJobs' = RunJob(plJobs, e, plPc[e].i + 1)
            /\ plPc' = [plPc EXCEPT ![e].pc = "sleep", ![e].i = @ + 1]
            /\ UNCHANGED plState
       ELSE /\ plState' = [plState EXCEPT ![e] = SetState(PipelineStates, @, "Completed")]
            /\ plPc' = [plPc EXCEPT ![e] = PlReady]
            /\ UNCHANGED plJobs
    /\ UNCHANGED <<plConfig, plLoaded, plEvents, plRuns>>
    /\ FramePL

NextPL ==
    \/ \E e \in Executors, n \in 0..MaxPlJobs : PLCreate(e, n)
    \/ \E e \in Executors : PLInitJobs(e)
    \/ \E e \in Executors : PLExecute(e)
    \/ \E e \in Executors : PLJobCompletes(e)
    \/ \E e \in Executors : PLJobFails(e)
    \/ \E e \in Executors : PLResume(e)

(***************************************************************************)
(* KatamariLambdaFunction (src/src/KatamariLambda.py).  The callers of     *)
(* invoke are tasks of one event loop; invoke suspends only in wait_for,   *)
(* which ends when the handler returns or raises, or at the deadline,      *)
(* where it cancels the handler and raises TimeoutError.                   *)
(***************************************************************************)
Invokers == 1..NumInvokers
LamIdle == [pc |-> "idle", start |-> 0]
NoLamResult == [op |-> "none"]

\* invoke, line 76: the concurrency gate
AdmitsAlways(active, limit) == TRUE

Admits(active, limit) == ~(active >= limit)

\* invoke, lines 92-99: the state the call sets when wait_for ends.  An
\* exception that is not an Exception (CancelledError, KeyboardInterrupt)
\* passes both except clauses: no state is set and it reaches the caller
EndStateCompleted(current, how) == "Completed"

EndState(current, how) ==
    CASE how = "returned" -> "Completed"
      [] how = "timeout" -> "Failed"
      [] how = "raised" -> "Failed"
      [] how = "propagated" -> current

InitLF ==
    /\ lamState = "None"
    /\ lamLimit = 0
    /\ active_executions = 0
    /\ lamTask = [t \in Invokers |-> LamIdle]
    /\ lamResult = NoLamResult
    /\ lamInvokes = 0

\* __init__, lines 60-72
LFCreate(concurrency_limit) ==
    /\ lamState = "None"
    /\ lamState' = SetState(JobStates, lamState, "Pending")
    /\ lamLimit' = concurrency_limit
    /\ UNCHANGED <<active_executions, lamTask, lamResult, lamInvokes>>
    /\ UNCHANGED now
    /\ FrameLF

\* invoke, lines 76-90, up to the await of wait_for
LFInvoke(t) ==
    /\ lamState # "None" /\ lamTask[t] = LamIdle
    /\ \A u \in Invokers : u < t => lamTask[u] # LamIdle
    /\ lamInvokes < MaxInvokes
    /\ lamInvokes' = lamInvokes + 1
    /\ IF Admits(active_executions, lamLimit)
       THEN /\ lamState' = SetState(JobStates, lamState, "Running")
            /\ active_executions' = active_executions + 1
            /\ lamTask' = [lamTask EXCEPT ![t] = [pc |-> "running", start |-> now]]
            /\ lamResult' = [op |-> "invoke", how |-> "admitted", state |-> lamState,
                             active |-> active_executions]
       ELSE /\ lamResult' = [op |-> "invoke", how |-> "skipped", state |-> lamState,
                             active |-> active_executions]
            /\ UNCHANGED <<lamState, active_executions, lamTask>>
    /\ UNCHANGED lamLimit
    /\ UNCHANGED now
    /\ FrameLF

\* invoke, lines 92-102: wait_for has ended; the state is set, the counter
\* lowered and the call returns
InvokeEnds(t, how) ==
    /\ lamState' = SetState(JobStates, lamState, EndState(lamState, how))
    /\ active_executions' = active_executions - 1
    /\ lamTask' = [lamTask EXCEPT ![t] = LamIdle]
    /\ lamResult' = [op |-> "invoke", how |-> how, state |-> lamState,
                     active |-> active_executions,
                     elapsed |-> now - lamTask[t].start]
    /\ UNCHANGED <<lamLimit, lamInvokes>>
    /\ UNCHANGED now
    /\ FrameLF

\* the handler returns before wait_for's timer has fired
LFHandlerReturns(t) ==
    /\ lamTask[t].pc = "running"
    /\ now - lamTask[t].start <= LamTimeout
    /\ InvokeEnds(t, "returned")

\* the handler raises an Exception before wait_for's timer has fired
LFHandlerRaises(t) ==
    /\ lamTask[t].pc = "running"
    /\ now - lamTask[t].start <= LamTimeout
    /\ InvokeEnds(t, "raised")

\* the handler raises an exception that is not an Exception, or the call
\* itself is cancelled, before wait_for's timer has fired
LFHandlerPropagates(t) ==
    /\ lamTask[t].pc = "running"
    /\ now - lamTask[t].start <= LamTimeout
    /\ InvokeEnds(t, "propagated")

\* wait_for's timer fires: the handler is cancelled, TimeoutError is raised
LFTimeout(t) ==
    /\ lamTask[t].pc = "running"
    /\ now - lamTask[t].start >= LamTimeout
    /\ InvokeEnds(t, "timeout")

\* StateMachine.set_state, lines 65-66, with a state that is not declared:
\* ValueError, and the current state stays
LFSetInvalid ==
    /\ lamState # "None"
    /\ lamResult.op # "set_state"
    /\ lamState' = SetState(JobStates, lamState, "Paused")
    /\ lamResult' = [op |-> "set_state", how |-> "ValueError", state |-> lamState,
                     active |-> active_executions]
    /\ UNCHANGED <<lamLimit, active_executions, lamTask, lamInvokes>>
    /\ UNCHANGED now
    /\ FrameLF

\* the clock advances; a timer that is due fires before it advances again
TickLF ==
    /\ \A t \in Invokers :
            lamTask[t].pc = "running" => now - lamTask[t].start < LamTimeout
    /\ Tick
    /\ lamResult' = NoLamResult
    /\ UNCHANGED <<lamState, lamLimit, active_executions, lamTask, lamInvokes>>
    /\ FrameLF

NextLF ==
    \/ \E limit \in 1..MaxLimit : LFCreate(limit)
    \/ \E t \in Invokers : LFInvoke(t)
    \/ \E t \in Invokers : LFHandlerReturns(t)
    \/ \E t \in Invokers : LFHandlerRaises(t)
    \/ \E t \in Invokers : LFHandlerPropagates(t)
    \/ \E t \in Invokers : LFTimeout(t)
    \/ LFSetInvalid
    \/ TickLF

\* the pipelines and the lambda functions of one process
NextJobs == NextPL \/ NextLF

(***************************************************************************)
(* parse_time_string (the same function in KatamariPipelines.py and in     *)
(* KatamariLambda.py).  A string is the sequence of its characters.        *)
(***************************************************************************)
\* time_units, lines 17-25
TimeUnitsCaseFolded ==
    [u \in {"q", "M", "w", "d", "h", "m", "s"} |->
        CASE u = "q" -> 7884000 [] u \in {"M", "m"} -> 2628000 [] u = "w" -> 604800
          [] u = "d" -> 86400 [] u = "h" -> 3600 [] u = "s" -> 1]

TimeUnits ==
    [u \in {"q", "M", "w", "d", "h", "m", "s"} |->
        CASE u = "q" -> 7884000 [] u = "M" -> 2628000 [] u = "w" -> 604800
          [] u = "d" -> 86400 [] u = "h" -> 3600 [] u = "m" -> 60 [] u = "s" -> 1]

\* \d, and int() of one digit
DigitValue ==
    [c \in {"0", "1", "2", "3", "4", "5", "6", "7", "8", "9"} |->
        CASE c = "0" -> 0 [] c = "1" -> 1 [] c = "2" -> 2 [] c = "3" -> 3 [] c = "4" -> 4
          [] c = "5" -> 5 [] c = "6" -> 6 [] c = "7" -> 7 [] c = "8" -> 8 [] c = "9" -> 9]
Digits == DOMAIN DigitValue
UnitChars == DOMAIN TimeUnits

\* int(amount), line 34
RECURSIVE IntOf(_)
IntOf(chars) ==
    IF chars = <<>> THEN 0
    ELSE IntOf(SubSeq(chars, 1, Len(chars) - 1)) * 10 + DigitValue[chars[Len(chars)]]

\* the pattern (\d+)([qMwdhms]) tried at index pos, line 30: the lengths of
\* the digit prefixes that a unit character follows; \d+ is greedy, so the
\* longest one is the match
MatchLens(str, pos) ==
    {n \in 1..(Len(str) - pos) :
        /\ \A k \in pos..(pos + n - 1) : str[k] \in Digits
        /\ str[pos + n] \in UnitChars}

\* the strings the calls are made with: every string of up to MaxTimeLen
\* characters of TimeChars, and the five components of the docstring's
\* example in every order
TimeChars == {"0", "1", "2"} \cup UnitChars \cup {"x"}
ExampleParts == <<(<<"2", "w">>), (<<"3", "d">>), (<<"5", "h">>),
                  (<<"2", "0", "m">>), (<<"3", "0", "s">>)>>
RECURSIVE JoinParts(_, _)
JoinParts(parts, order) ==
    IF order = <<>> THEN <<>>
    ELSE parts[Head(order)] \o JoinParts(parts, Tail(order))
Orders(n) == {f \in [1..n -> 1..n] : \A i, j \in 1..n : f[i] = f[j] => i = j}
ExampleStrings == {JoinParts(ExampleParts, f) : f \in Orders(Len(ExampleParts))}
ShortStrings == UNION {[1..n -> TimeChars] : n \in 0..MaxTimeLen}

InitPT ==
    /\ ptInput = <<>>
    /\ ptPos = 1
    /\ ptTotal = 0
    /\ ptPc = "idle"

\* parse_time_string is called, lines 27-30
PTCall(time_str) ==
    /\ ptPc = "idle"
    /\ ptInput' = time_str
    /\ ptPos' = 1
    /\ ptTotal' = 0
    /\ ptPc' = "scan"
    /\ FramePT

\* one step of findall and of the loop, lines 33-34: a match at ptPos is
\* added and the scan goes on behind it; without one it moves on by one
\* character
PTScan ==
    /\ ptPc = "scan" /\ ptPos <= Len(ptInput)
    /\ LET lens == MatchLens(ptInput, ptPos)
       IN IF lens = {}
          THEN /\ ptPos' = ptPos + 1
               /\ UNCHANGED ptTotal
          ELSE LET n == Max(lens)
               IN /\ ptTotal' = ptTotal + IntOf(SubSeq(ptInput, ptPos, ptPos + n - 1))
                                            * TimeUnits[ptInput[ptPos + n]]
                  /\ ptPos' = ptPos + n + 1
    /\ UNCHANGED <<ptInput, ptPc>>
    /\ FramePT

\* line 36: the end of the string is reached, total_seconds is returned
PTReturn ==
    /\ ptPc = "scan" /\ ptPos > Len(ptInput)
    /\ ptPc' = "done"
    /\ UNCHANGED <<ptInput, ptPos, ptTotal>>
    /\ FramePT

NextPT ==
    \/ \E time_str \in ShortStrings : PTCall(time_str)
    \/ \E time_str \in ExampleStrings : PTCall(time_str)
    \/ PTScan
    \/ PTReturn

(***************************************************************************)
(* FileProcessor (src/src/KatamariDB.py).  Bytes are numbers 0..255.  The  *)
(* base64 coding is computed; zlib, zstandard and SHA-256 are libraries:   *)
(* a compressed stream is the format's leading bytes and then the data it  *)
(* restores (the lossless coding of the body is not modelled), and a       *)
(* digest stands for the bytes it was computed from.                       *)
(***************************************************************************)
CompressionMethods == {"zlib", "zstandard", "lz4"}  \* lz4: a method the class does not know
CodecValues == 0..MaxCodecValue

FpValueError == [tag |-> "ValueError", v |-> 0]
FpNone == [tag |-> "None", v |-> 0]
NoFpResult == [tag |-> "none", v |-> 0]

\* the bytes a stream of the method starts with: the zlib header of the
\* default level, the zstandard frame magic
StreamHead(method) ==
    IF method = "zlib" THEN <<120, 156>> ELSE <<40, 181, 47, 253>>

\* compress_data, lines 101-108
CompressData(method, data) ==
    IF method \in {"zlib", "zstandard"}
    THEN Ok(StreamHead(method) \o data)
    ELSE FpValueError

\* decompress_data, lines 110-115: None for a method the class does not
\* know; the library raises on a stream of another format
DecompressData(method, compressed_data) ==
    IF method \notin {"zlib", "zstandard"} THEN FpNone
    ELSE LET h == StreamHead(method)
         IN IF Len(compressed_data) >= Len(h) /\ SubSeq(compressed_data, 1, Len(h)) = h
            THEN Ok(SubSeq(compressed_data, Len(h) + 1, Len(compressed_data)))
            ELSE ReadError

\* encode_data, line 118: base64.b64encode(data).decode('utf-8').  A
\* character of the text is its index in the base64 alphabet, B64Pad is '='
B64Pad == 64
RECURSIVE EncodeData(_)
EncodeData(data) ==
    IF data = <<>> THEN <<>>
    ELSE IF Len(data) = 1
    THEN <<data[1] \div 4, (data[1] % 4) * 16, B64Pad, B64Pad>>
    ELSE IF Len(data) = 2
    THEN <<data[1] \div 4, (data[1] % 4) * 16 + data[2] \div 16, (data[2] % 16) * 4,
           B64Pad>>
    ELSE <<data[1] \div 4, (data[1] % 4) * 16 + data[2] \div 16,
           (data[2] % 16) * 4 + data[3] \div 64, data[3] % 64>>
         \o EncodeData(SubSeq(data, 4, Len(data)))

\* decode_data, line 121: base64.b64decode; binascii.Error when the text is
\* not a whole number of groups of four
RECURSIVE DecodeData(_)
DecodeData(encoded_data) ==
    IF encoded_data = <<>> THEN Ok(<<>>)
    ELSE IF Len(encoded_data) < 4 THEN ReadError
    ELSE LET c == encoded_data
             rest == DecodeData(SubSeq(c, 5, Len(c)))
             first == IF c[3] = B64Pad
                      THEN <<c[1] * 4 + c[2] \div 16>>
                      ELSE IF c[4] = B64Pad
                      THEN <<c[1] * 4 + c[2] \div 16, (c[2] % 16) * 16 + c[3] \div 4>>
                      ELSE <<c[1] * 4 + c[2] \div 16, (c[2] % 16) * 16 + c[3] \div 4,
                             (c[3] % 4) * 64 + c[4]>>
         IN IF rest.tag = "ok" THEN Ok(first \o rest.v) ELSE ReadError

\* calculate_checksum, lines 123-126
Sha256(data) == [sha256 |-> data]

\* process_value, line 133: the bytes the checksum is taken of
ChecksumInputUncompressed(value_data, compressed_data) == value_data

ChecksumInput(value_data, compressed_data) == compressed_data

\* process_value, lines 128-138
ProcessValue(method, value) ==
    LET value_data == Dumps(value)
        compressed_data == CompressData(method, value_data)
    IN IF compressed_data.tag # "ok" THEN compressed_data
       ELSE Ok([file_type |-> "text/json",
                binary_data |-> EncodeData(compressed_data.v),
                checksum |-> Sha256(ChecksumInput(value_data, compressed_data.v))])

InitFP ==
    /\ fpMethod = "none"
    /\ fpValue = 0
    /\ fpResult = NoFpResult
    /\ fpDecoded = NoFpResult
    /\ fpOut = NoFpResult
    /\ fpPc = "new"

\* __init__, lines 96-99, and a call of process_value
FPProcessValue(method, value) ==
    /\ fpPc = "new"
    /\ fpMethod' = method
    /\ fpValue' = value
    /\ fpResult' = ProcessValue(method, value)
    /\ fpPc' = "processed"
    /\ UNCHANGED <<fpDecoded, fpOut>>
    /\ FrameFP

\* a call of decode_data with the payload process_value returned
FPDecode ==
    /\ fpPc = "processed" /\ fpResult.tag = "ok"
    /\ fpDecoded' = DecodeData(fpResult.v.binary_data)
    /\ fpPc' = "decoded"
    /\ UNCHANGED <<fpMethod, fpValue, fpResult, fpOut>>
    /\ FrameFP

\* a call of decompress_data with the decoded payload
FPDecompress ==
    /\ fpPc = "decoded" /\ fpDecoded.tag = "ok"
    /\ fpOut' = DecompressData(fpMethod, fpDecoded.v)
    /\ fpPc' = "done"
    /\ UNCHANGED <<fpMethod, fpValue, fpResult, fpDecoded>>
    /\ FrameFP

NextFP ==
    \/ \E method \in CompressionMethods, value \in CodecValues : FPProcessValue(method, value)
    \/ FPDecode
    \/ FPDecompress

(***************************************************************************)
(* KatamariDBM shared by several threads.  A thread is preempted between   *)
(* any two statements; the statements of one step touch one file or the    *)
(* index.  Files are taken as their bytes; there is no crash here.         *)
(***************************************************************************)
Writers == 1..NumWriters
NoThread == 0
WrIdle == [step |-> "idle", key |-> <<>>, value |-> 0, offset |-> 0]
NoWrResult == [op |-> "none"]

\* a lock that every thread may take at any time
WrLockFreeAlways == TRUE

\* threading.Lock: acquire() returns only while no thread holds the lock
WrLockFree == wrLock = NoThread

InitWR ==
    /\ wrLock = NoThread
    /\ wrPc = [th \in Writers |-> WrIdle]
    /\ wrIndex = <<>>
    /\ wrData = <<>>
    /\ wrWal = <<>>
    /\ wrIdx = <<>>
    /\ wrOrder = <<>>
    /\ wrResult = NoWrResult
    /\ wrCalls = 0

\* __setitem__, lines 247-251: the record is encoded; the thread then asks
\* for the lock
WRSetCall(th, key, value) ==
    /\ wrPc[th] = WrIdle
    /\ wrCalls < MaxWrCalls
    /\ wrCalls' = wrCalls + 1
    /\ wrPc' = [wrPc EXCEPT ![th] = [step |-> "set_lock", key |-> key, value |-> value,
                                     offset |-> 0]]
    /\ UNCHANGED <<wrLock, wrIndex, wrData, wrWal, wrIdx, wrOrder, wrResult>>
    /\ FrameWR

\* __setitem__, lines 253-262: the lock is taken and the record appended to
\* the WAL
WRSetWal(th) ==
    /\ wrPc[th].step = "set_lock"
    /\ WrLockFree
    /\ wrLock' = th
    /\ wrWal' = wrWal \o Record(wrPc[th].key, wrPc[th].value)
    /\ wrOrder' = Append(wrOrder, [op |-> "set", key |-> wrPc[th].key,
                                   value |-> wrPc[th].value, calls |-> wrCalls])
    /\ wrPc' = [wrPc EXCEPT ![th].step = "wal"]
    /\ UNCHANGED <<wrIndex, wrData, wrIdx, wrResult, wrCalls>>
    /\ FrameWR

\* __setitem__, lines 265-273: tell() and the append to the data file
WRSetData(th) ==
    /\ wrPc[th].step = "wal"
    /\ wrData' = wrData \o Record(wrPc[th].key, wrPc[th].value)
    /\ wrPc' = [wrPc EXCEPT ![th].step = "data", ![th].offset = Len(wrData)]
    /\ UNCHANGED <<wrLock, wrIndex, wrWal, wrIdx, wrOrder, wrResult, wrCalls>>
    /\ FrameWR

\* __setitem__, lines 276-277: the index update and _write_index
WRSetIndex(th) ==
    /\ wrPc[th].step = "data"
    /\ wrIndex' = DictSet(wrIndex, wrPc[th].key, wrPc[th].offset)
    /\ wrIdx' = wrIndex'
    /\ wrPc' = [wrPc EXCEPT ![th].step = "index"]
    /\ UNCHANGED <<wrLock, wrData, wrWal, wrOrder, wrResult, wrCalls>>
    /\ FrameWR

\* __setitem__, lines 280-281 and the exit of `with self.lock`: the WAL is
\* truncated, the lock released, and the call returns
WRSetTruncate(th) ==
    /\ wrPc[th].step = "index"
    /\ wrWal' = <<>>
    /\ wrLock' = IF wrLock = th THEN NoThread ELSE wrLock
    /\ wrPc' = [wrPc EXCEPT ![th] = WrIdle]
    /\ wrResult' = [op |-> "set", th |-> th, key |-> wrPc[th].key, res |-> Ok(0)]
    /\ UNCHANGED <<wrIndex, wrData, wrIdx, wrOrder, wrCalls>>
    /\ FrameWR

\* __delitem__, lines 285-286: the test of the key, made before the lock is
\* asked for
WRDelCall(th, key) ==
    /\ wrPc[th] = WrIdle
    /\ wrCalls < MaxWrCalls
    /\ wrCalls' = wrCalls + 1
    /\ IF key \notin DOMAIN wrIndex
       THEN /\ wrResult' = [op |-> "delete", th |-> th, key |-> key, res |-> KeyError]
            /\ UNCHANGED wrPc
       ELSE /\ wrPc' = [wrPc EXCEPT ![th] = [step |-> "del_lock", key |-> key,
                                             value |-> 0, offset |-> 0]]
            /\ UNCHANGED wrResult
    /\ UNCHANGED <<wrLock, wrIndex, wrData, wrWal, wrIdx, wrOrder>>
    /\ FrameWR

\* __delitem__, lines 288-289: the lock is taken and the key removed from the
\* index; `del` raises KeyError when another delete removed the key since the
\* test, and the lock is released on the way out
WRDelIndex(th) ==
    /\ wrPc[th].step = "del_lock"
    /\ WrLockFree
    /\ wrOrder' = Append(wrOrder, [op |-> "delete", key |-> wrPc[th].key, value |-> 0,
                                   calls |-> wrCalls])
    /\ IF wrPc[th].key \in DOMAIN wrIndex
       THEN /\ wrLock' = th
            /\ wrIndex' = DictDel(wrIndex, wrPc[th].key)
            /\ wrPc' = [wrPc EXCEPT ![th].step = "del"]
            /\ UNCHANGED wrResult
       ELSE /\ wrPc' = [wrPc EXCEPT ![th] = WrIdle]
            /\ wrResult' = [op |-> "delete", th |-> th, key |-> wrPc[th].key,
                            res |-> KeyError]
            /\ UNCHANGED <<wrLock, wrIndex>>
    /\ UNCHANGED <<wrData, wrWal, wrIdx, wrCalls>>
    /\ FrameWR

\* __delitem__, line 290 and the exit of `with self.lock`: _write_index, the
\* lock is released, and the call returns
WRDelPersist(th) ==
    /\ wrPc[th].step = "del"
    /\ wrIdx' = wrIndex
    /\ wrLock' = IF wrLock = th THEN NoThread ELSE wrLock
    /\ wrPc' = [wrPc EXCEPT ![th] = WrIdle]
    /\ wrResult' = [op |-> "delete", th |-> th, key |-> wrPc[th].key, res |-> Ok(0)]
    /\ UNCHANGED <<wrIndex, wrData, wrWal, wrOrder, wrCalls>>
    /\ FrameWR

NextWR ==
    \/ \E th \in Writers, k \in DbmKeys, v \in DbmValues : WRSetCall(th, k, v)
    \/ \E th \in Writers : WRSetWal(th)
    \/ \E th \in Writers : WRSetData(th)
    \/ \E th \in Writers : WRSetIndex(th)
    \/ \E th \in Writers : WRSetTruncate(th)
    \/ \E th \in Writers, k \in DbmKeys : WRDelCall(th, k)
    \/ \E th \in Writers : WRDelIndex(th)
    \/ \E th \in Writers : WRDelPersist(th)

(***************************************************************************)
(* The registration handshake: WorkerNode.start on one side and            *)
(* KatamariMQServer.handle_worker on the other.  A frame is a text; the    *)
(* texts that occur are a bare worker id and the JSON object json.dumps    *)
(* makes of {'worker_id': ..., 'workload': ...}, told apart by `json`.     *)
(***************************************************************************)
Nodes == {"worker_1", "worker_2"}

\* the text that consists of the worker id
Text(worker_id) == [json |-> FALSE, worker_id |-> worker_id, workload |-> 0]

\* json.dumps({'worker_id': worker_id, 'workload': workload})
JsonDumps(worker_id, workload) ==
    [json |-> TRUE, worker_id |-> worker_id, workload |-> workload]

\* start, line 102: registration_data
RegistrationData(node_id, workload) == JsonDumps(node_id, workload)

NoWorkerId == Text("none")

InitHS ==
    /\ hsClient = [c \in Nodes |-> "new"]
    /\ hsWire = [c \in Nodes |-> <<>>]
    /\ hsHandler = [c \in Nodes |-> "none"]
    /\ hsWorkerId = [c \in Nodes |-> NoWorkerId]
    /\ hsWorkers = <<>>
    /\ hsDb = <<>>
    /\ hsBeats = 0

\* WorkerNode.start, lines 98-103: the node connects (the server starts a
\* handle_worker for the connection) and sends its registration data; its
\* workload is 0, no job has been received yet
HSStart(c) ==
    /\ hsClient[c] = "new"
    /\ hsClient' = [hsClient EXCEPT ![c] = "open"]
    /\ hsWire' = [hsWire EXCEPT ![c] = <<RegistrationData(c, 0)>>]
    /\ hsHandler' = [hsHandler EXCEPT ![c] = "recv"]
    /\ UNCHANGED <<hsWorkerId, hsWorkers, hsDb, hsBeats>>
    /\ FrameHS

\* handle_worker, lines 151-152, and register_worker: the first frame, as
\* received, is the worker_id; it is entered with workload 0 and persisted
HSRegister(c) ==
    /\ hsHandler[c] = "recv"
    /\ hsWire[c] # <<>>
    /\ LET worker_id == Head(hsWire[c])
       IN /\ hsWorkerId' = [hsWorkerId EXCEPT ![c] = worker_id]
          /\ hsWorkers' = DictSet(hsWorkers, worker_id, 0)
          /\ hsDb' = DictSet(hsDb, worker_id, 0)
    /\ hsWire' = [hsWire EXCEPT ![c] = Tail(@)]
    /\ hsHandler' = [hsHandler EXCEPT ![c] = "loop"]
    /\ UNCHANGED <<hsClient, hsBeats>>
    /\ FrameHS

\* send_heartbeat, lines 113-114: the node sends its workload
HSHeartbeat(c, workload) ==
    /\ hsClient[c] = "open"
    /\ hsBeats < MaxHsBeats
    /\ hsBeats' = hsBeats + 1
    /\ hsWire' = [hsWire EXCEPT ![c] = Append(@, JsonDumps(c, workload))]
    /\ UNCHANGED <<hsClient, hsHandler, hsWorkerId, hsWorkers, hsDb>>
    /\ FrameHS

\* receive_messages, lines 135-140, and update_heartbeat: json.loads of the
\* frame; a JSON object with a workload updates the entry of the handler's
\* worker_id, a text that is no JSON makes json.loads raise
HSReceive(c) ==
    /\ hsHandler[c] = "loop"
    /\ hsWire[c] # <<>>
    /\ hsWire' = [hsWire EXCEPT ![c] = Tail(@)]
    /\ LET message == Head(hsWire[c])
       IN IF message.json
          THEN /\ IF hsWorkerId[c] \in DOMAIN hsWorkers
                  THEN /\ hsWorkers' = DictSet(hsWorkers, hsWorkerId[c], message.workload)
                       /\ hsDb' = DictSet(hsDb, hsWorkerId[c], message.workload)
                  ELSE UNCHANGED <<hsWorkers, hsDb>>
               /\ UNCHANGED hsHandler
          ELSE /\ hsHandler' = [hsHandler EXCEPT ![c] = "ended"]
               /\ UNCHANGED <<hsWorkers, hsDb>>
    /\ UNCHANGED <<hsClient, hsWorkerId, hsBeats>>
    /\ FrameHS

\* the node leaves start(): the connection is closed and, once the frames
\* sent have been read, the server's loop ends
HSClose(c) ==
    /\ hsClient[c] = "open"
    /\ hsClient' = [hsClient EXCEPT ![c] = "closed"]
    /\ UNCHANGED <<hsWire, hsHandler, hsWorkerId, hsWorkers, hsDb, hsBeats>>
    /\ FrameHS

NextHS ==
    \/ \E c \in Nodes : HSStart(c)
    \/ \E c \in Nodes : HSRegister(c)
    \/ \E c \in Nodes, workload \in Workloads : HSHeartbeat(c, workload)
    \/ \E c \in Nodes : HSReceive(c)
    \/ \E c \in Nodes : HSClose(c)

Init ==
    /\ now = 0 /\ InitMVCC /\ InitDBM /\ InitORM /\ InitMQ /\ InitWN /\ InitPL /\ InitLF
    /\ InitPT /\ InitFP /\ InitWR /\ InitHS

SpecMVCC == Init /\ [][NextMVCC]_vars

SpecDBM == Init /\ [][NextDBM]_vars

SpecRebuild == Init /\ [][NextRebuild]_vars

SpecORM == Init /\ [][NextORM]_vars

\* the event loop runs every task that is ready: the TTL scheduler and every
\* call that has been resumed go on (time and new calls are not forced)
FairORM ==
    /\ WF_vars(TtlPlan) /\ WF_vars(TtlWake) /\ WF_vars(TtlExpire)
    /\ \A t \in OrmTasks \cup {TtlTask} : WF_vars(OrmDeleteGranted(t))
    /\ \A t \in OrmTasks :
            /\ WF_vars(OrmSetWrite(t)) /\ WF_vars(OrmSetCommit(t))
            /\ WF_vars(OrmGetDelete(t))
            /\ WF_vars(OrmRollbackRead(t)) /\ WF_vars(OrmRollbackGranted(t))
            /\ WF_vars(OrmRollbackClear(t))

SpecORMLive == SpecORM /\ FairORM

SpecMQ == Init /\ [][NextMQ]_vars

SpecRegistry == Init /\ [][NextRegistry]_vars

\* assign_shards for a registry of up to three workers and a list of nine
\* items
NextExample ==
    \/ \E w \in ExampleWorkers : MQRegister(w)
    \/ \E w \in ExampleWorkers, workload \in ExampleWorkloads : MQHeartbeat(w, workload)
    \/ MQAssignStart(ExampleJob, ExampleData)
    \/ MQAssignSent

SpecExample == Init /\ [][NextExample]_vars

SpecWN == Init /\ [][NextWN]_vars

SpecPL == Init /\ [][NextPL]_vars

\* the event loop runs every task that is ready: init_jobs, the end of a
\* sleep and a resolved wait go on (new executors and calls are not forced)
FairPL ==
    \A e \in Executors :
        /\ WF_vars(PLInitJobs(e))
        /\ WF_vars(PLJobCompletes(e))
        /\ WF_vars(PLResume(e))

SpecPLLive == SpecPL /\ FairPL

SpecLF == Init /\ [][NextLF]_vars

SpecJobs == Init /\ [][NextJobs]_vars

SpecPT == Init /\ [][NextPT]_vars

SpecFP == Init /\ [][NextFP]_vars

SpecWR == Init /\ [][NextWR]_vars

SpecHS == Init /\ [][NextHS]_vars

(***************************************************************************)
(* Claims about KatamariMVCC                                               *)
(***************************************************************************)
\* the version a get just returned
Returned == store[lastGet.key][lastGet.idx]

\* C1: a get under an active transaction T never returns a version written
\* by a put of another transaction that was called after begin(T).
C1_SnapshotIsolation ==
    (lastGet # NoGet /\ lastGet.active /\ lastGet.idx > 0
        /\ Returned.transaction_id # lastGet.tx)
    => lastGet.tx \notin Returned.begun

\* The history of key k is the one the sequence begin(T1); put(k,v1,T1);
\* commit(T1); begin(T2); put(k,v2,T2); commit(T2) leaves behind.
TwoCommittedWrites(k, T1, T2) ==
    /\ T1 # T2
    /\ Len(store[k]) = 2
    /\ store[k][1].transaction_id = T1
    /\ store[k][2].transaction_id = T2
    /\ store[k][1].open /\ store[k][2].open
    /\ T1 \in txPrior[T2]
    /\ {T1, T2} \subseteq committed
    /\ \A th \in Threads : putPending[th] = NoPut

\* C2 as stated: after that sequence get(k, T1) returns v1 and get(k, T2)
\* returns v2.
C2_SnapshotAfterCommit ==
    \A k \in MvKeys, T1, T2 \in TxIds :
        (TwoCommittedWrites(k, T1, T2) /\ lastGet # NoGet /\ lastGet.key = k)
        => /\ lastGet.tx = T1 => lastGet.value = store[k][1].value
           /\ lastGet.tx = T2 => lastGet.value = store[k][2].value

\* C2 as amended: commit removes the transaction's start timestamp, so a get
\* under a committed transaction is served as of the time of the read: after
\* that sequence both get(k, T1) and get(k, T2) return v2.
C2_ReadAfterCommitIsLatest ==
    \A k \in MvKeys, T1, T2 \in TxIds :
        (TwoCommittedWrites(k, T1, T2) /\ lastGet # NoGet /\ lastGet.key = k
            /\ lastGet.tx \in {T1, T2})
        => lastGet.idx = 2 /\ lastGet.value = store[k][2].value

C2_Witness ==
    \E k \in MvKeys, T1, T2 \in TxIds :
        /\ TwoCommittedWrites(k, T1, T2)
        /\ store[k][1].value = "v1" /\ store[k][2].value = "v2"
        /\ store[k][1].timestamp < store[k][2].timestamp
        /\ lastGet # NoGet /\ lastGet.key = k /\ lastGet.tx = T1
        /\ lastGet.value = "v2"

\* C3: read-your-writes: while T is active and the last version appended to
\* k is a put of T, get(k, T) returns that version.
C3_ReadYourWrites ==
    (lastGet # NoGet /\ lastGet.active /\ Len(store[lastGet.key]) > 0
        /\ store[lastGet.key][Len(store[lastGet.key])].transaction_id = lastGet.tx)
    => /\ lastGet.idx = Len(store[lastGet.key])
       /\ lastGet.value = store[lastGet.key][Len(store[lastGet.key])].value

\* C4: the versions of a key's history are 1, 2, ..., n in append order.
C4_VersionMonotonicity ==
    \A k \in MvKeys : \A i \in 1..Len(store[k]) : store[k][i].version = i

(***************************************************************************)
(* Claims about KatamariDBM                                                *)
(***************************************************************************)
\* a complete record with key `key` starts at `offset`
RecordAt(bytes, offset, key) ==
    LET header == Read(bytes, offset, HeaderLen)
    IN /\ Len(header) = HeaderLen
       /\ KeySize(header) = Len(key)
       /\ Read(bytes, offset + HeaderLen, KeySize(header)) = key
       /\ offset + HeaderLen + KeySize(header) + ValueSize(header) <= Len(bytes)
       /\ Loads(Read(bytes, offset + HeaderLen + KeySize(header),
                     ValueSize(header))).tag = "ok"

\* the key -> value mapping a caller reads back
MappingIs(m) ==
    /\ DOMAIN index = DOMAIN m
    /\ \A k \in DOMAIN m : DBMGetItem(k) = Ok(m[k])

\* C5: when every crash fell between two steps of a set or between two
\* calls (no torn write, no I/O error), the engine, once open again, holds
\* the mapping the same calls give without the crash, latest write winning.
C5_WalRecoveryIdempotence ==
    (dbmUp = "up" /\ dbmPc = Idle /\ ~tornEver /\ ~ioFailEver)
    => MappingIs(expected)

\* a reopen after ("a", 7) was written and a set("a", 42) crashed right after
\* its data-file append: the replay appends the record a second time and
\* get("a") returns 42
C5_Witness ==
    /\ dbmResult.op = "open" /\ dbmUp = "up"
    /\ crashAt = "data" /\ ~tornEver /\ ~ioFailEver
    /\ <<97>> \in DOMAIN expected /\ expected[<<97>>] = 42
    /\ dataFile.bytes = Record(<<97>>, 7) \o Record(<<97>>, 42) \o Record(<<97>>, 42)
    /\ index[<<97>>] = Len(Record(<<97>>, 7)) + Len(Record(<<97>>, 42))
    /\ DBMGetItem(<<97>>) = Ok(42)

\* C6: after an open and after a completed call, every key of the index
\* maps to an offset at which a complete record with that key starts.
C6_IndexDataConsistency ==
    (dbmUp = "up" /\ dbmPc = Idle)
    => \A k \in DOMAIN index : RecordAt(dataFile.bytes, index[k], k)

\* C7: a deleted key stays unreachable, also after a reopen that replays a
\* WAL left by an earlier failed set, until it is set again (stated for the
\* runs without a torn WAL).
C7_DeletedStayUnreachable ==
    (dbmResult.op = "get" /\ dbmResult.key \in deleted /\ ~tornEver)
    => dbmResult.res = KeyError

\* C8: an open on a WAL whose last record is torn succeeds, and leaves no
\* partial record in the data file or in the index.
C8_TornWalTailDiscarded ==
    (dbmResult.op = "open" /\ dbmResult.torn)
    => /\ dbmResult.res = Ok(0)
       /\ CompleteRecords(dataFile.bytes, 0)
       /\ \A k \in DOMAIN index : RecordAt(dataFile.bytes, index[k], k)

\* C9: after set(k, v) failed with an I/O error past its WAL append, the
\* next open applies the record: a get(k) after that open returns v (as long
\* as k was neither set again nor deleted; stated for the runs without a
\* torn WAL).
C9_FailedSetRecovered ==
    (/\ dbmResult.op = "get" /\ ~tornEver
     /\ dbmResult.key \in DOMAIN failed
     /\ failed[dbmResult.key].reopened)
    => dbmResult.res = Ok(failed[dbmResult.key].value)

(***************************************************************************)
(* Claims about KatamariORM                                                *)
(***************************************************************************)
\* C10: a get(k) that returns gives None when the time it read is later
\* than the expiry recorded for k at that moment, processed by the TTL
\* scheduler or not; otherwise it gives the value stored for k at that
\* moment (None when there is none).
C10_ExpireOnAccess ==
    ormResult.op = "get"
    => IF ormResult.expire # NoTask /\ ormResult.current_time > ormResult.expire
       THEN ormResult.value = None
       ELSE ormResult.value = ormResult.stored

\* a get of a stored key past its expiry returned None while the key's
\* entry was still in the TTL heap
C10_Witness ==
    /\ ormResult.op = "get"
    /\ ormResult.expire # NoTask /\ ormResult.current_time > ormResult.expire
    /\ ormResult.stored # None
    /\ ormResult.value = None
    /\ \E i \in 1..Len(ttl_heap) :
            ttl_heap[i] = [expire_time |-> ormResult.expire, key |-> ormResult.key]
    /\ ormResult.key \notin DOMAIN ormStore

\* a set on the key is in flight
SetInFlight(key) ==
    \E t \in OrmTasks :
        /\ ormTask[t].key = key
        /\ ormTask[t].pc \in {"set_lock", "set_log", "set_commit", "set_del_lock",
                               "rb_read", "rb_lock", "rb_del", "rb_clear"}

\* the key is gone from the expiry map (DelBody removes it from the store and
\* the cache in the same step) and the heap holds no entry of it that is due
Reaped(key) ==
    /\ ~Expired(key, now)
    /\ \A i \in 1..Len(ttl_heap) :
            ttl_heap[i].key = key => ttl_heap[i].expire_time >= now

\* C11: with the scheduler running, a key whose expiry has passed is
\* eventually removed from the store, the cache and the expiry map and its
\* due heap entries are popped, unless a set on that key comes first.
C11_TtlLiveness ==
    \A k \in OrmKeys :
        (Expired(k, now) /\ ~SetInFlight(k)) ~> (Reaped(k) \/ SetInFlight(k))

\* task t is inside the critical section of a write on the key
InCrit(t, key) ==
    \/ /\ ormTask[t].key = key
       /\ ormTask[t].pc \in {"set_log", "set_commit", "set_del_lock", "rb_read", "rb_lock",
                              "rb_del", "rb_clear", "get_del", "del_del", "ttl_del"}
    \/ /\ ormTask[t].pc = "rb_del"
       /\ Head(ormTask[t].todo) = key
NoWriteInFlight(key) ==
    /\ \A t \in OrmTasks \cup {TtlTask} : ~InCrit(t, key)
    /\ lockWaiters[key] = <<>>
Reflects(key, acq) ==
    IF acq.kind = "set"
    THEN /\ key \in DOMAIN ormStore /\ ormStore[key] = acq.value
         /\ ExpireOf(key) = acq.expire
         /\ CacheHas(lru_cache, key) => CacheValue(lru_cache, key) = acq.value
    ELSE /\ key \notin DOMAIN ormStore
         /\ key \notin DOMAIN ttl_store
         /\ ~CacheHas(lru_cache, key)

\* C12: at most one task is inside the critical section of a write on a
\* key, and when no write on the key is in flight, the store, the cache and
\* the expiry map hold for it what the write that took its lock last left.
C12_PerKeyWriteOrdering ==
    \A k \in OrmKeys :
        /\ \A t1, t2 \in OrmTasks \cup {TtlTask} :
                (InCrit(t1, k) /\ InCrit(t2, k)) => t1 = t2
        /\ (NoWriteInFlight(k) /\ lastAcq[k].kind # "none") => Reflects(k, lastAcq[k])

\* two sets on k1 have completed, the second one after waiting for the lock
\* the first one held, and k1 holds the second one's value and expiry
C12_Witness ==
    /\ \A k \in OrmKeys : NoWriteInFlight(k)
    /\ lastAcq["k1"] = [kind |-> "set", value |-> "y", expire |-> 1, waited |-> TRUE]
    /\ lastDone["k1"] = "y"
    /\ "k1" \in DOMAIN ormStore /\ ormStore["k1"] = "y"
    /\ "k1" \in DOMAIN ttl_store /\ ttl_store["k1"] = 1

C15_RollbackOnFailure ==
    /\ \A t \in OrmTasks :
            ~(/\ ormTask[t].pc = "rb_lock"
              /\ Head(ormTask[t].todo) = ormTask[t].key
              /\ lockHolder[ormTask[t].key] = t)
    /\ ormResult.op = "set_failed"
       => /\ ormResult.key \notin DOMAIN ormStore
          /\ ormResult.key \notin DOMAIN ttl_store
          /\ ~CacheHas(lru_cache, ormResult.key)
          /\ transaction_log = <<>>

(***************************************************************************)
(* Claims about KatamariMQServer                                           *)
(***************************************************************************)
RECURSIVE Concat(_)
Concat(seqs) == IF seqs = <<>> THEN <<>> ELSE Head(seqs) \o Concat(Tail(seqs))

\* C16: shard_data(data, N) returns exactly N shards whose concatenation in
\* order is data, also when len(data) is no multiple of N or is below N.
C16_ShardDataPartition ==
    mqResult.op = "shard_data"
    => /\ mqResult.res.outcome = MQOk
       /\ Len(mqResult.res.shards) = mqResult.num_shards
       /\ Concat(mqResult.res.shards) = mqResult.data

\* the shards assigned to worker w by the call
Assigned(call, w) == {i \in 1..Len(call.assigned) : call.assigned[i] = w}
LoadAtCall(call, w) ==
    call.loads[CHOOSE i \in 1..Len(call.loads) : call.loads[i].id = w].workload

\* C17: in a call of assign_shards for n registered workers, at every point
\* of the call no worker has been given more than ceil(|data|/n) shards, and
\* shard i goes to the worker at position i mod n of the workers in
\* ascending order of the workload they had at the call.
C17_LoadBalance ==
    mqCall.pc \in {"send", "done"}
    => /\ \A w \in WorkerIds :
            Cardinality(Assigned(mqCall, w))
                <= CeilDiv(Len(mqCall.data), Len(mqCall.loads))
       /\ \A i, j \in 1..Len(mqCall.order) :
            i < j => LoadAtCall(mqCall, mqCall.order[i]) <= LoadAtCall(mqCall, mqCall.order[j])
       /\ \A i \in 1..Len(mqCall.assigned) :
            mqCall.assigned[i] = mqCall.order[((i - 1) % Len(mqCall.order)) + 1]

\* a finished call that sharded 3 items for two workers, the one registered
\* first carrying the larger workload: the other one got shards 0 and 2
C17_Witness ==
    /\ mqCall.pc = "done" /\ mqResult.op = "assign_shards" /\ mqResult.outcome = MQOk
    /\ Len(mqCall.data) = 3
    /\ mqCall.loads = <<[id |-> 1, workload |-> 1], [id |-> 2, workload |-> 0]>>
    /\ mqCall.assigned = <<2, 1, 2>>
    /\ Len(frames[2]) = 2 /\ Len(frames[1]) = 1

\* C18: dispatch_pipeline with a payload {pipeline_id, jobs, data}, with a
\* worker registered, returns without error, and then every shard of the
\* data has its record persisted and its frame sent to the worker the
\* record names.
C18_PipelineDispatch ==
    (mqResult.op = "dispatch_pipeline" /\ mqResult.registered # {})
    => /\ mqResult.outcome = MQOk
       /\ \A i \in 1..Len(ShardData(mqResult.data, Cardinality(mqResult.registered)).shards) :
            \E job_id \in JobIds :
                /\ <<job_id, i - 1>> \in DOMAIN dbShards
                /\ \E n \in 1..Len(frames[dbShards[<<job_id, i - 1>>].assigned_to]) :
                        frames[dbShards[<<job_id, i - 1>>].assigned_to][n].type = "shard"

\* C19: dispatch_lambda with a worker registered sends exactly one lambda
\* frame, to a worker of minimal workload, nothing to the others, and
\* returns without error.
C19_LambdaDispatch ==
    (mqResult.op = "dispatch_lambda" /\ mqResult.loads # <<>>)
    => /\ mqResult.outcome = MQOk
       /\ \E w \in WorkerIds :
            /\ \A i \in 1..Len(mqResult.loads) :
                    LoadAtCall(mqResult, w) <= mqResult.loads[i].workload
            /\ frames[w] = Append(mqResult.before[w], [type |-> "lambda"])
            /\ \A u \in WorkerIds \ {w} : frames[u] = mqResult.before[u]

\* C20: a worker whose connection has closed is not in the registry.
C20_DisconnectDeregisters ==
    \A w \in Registered : w \in connOpen

\* C21: a frame that is not valid JSON is dropped: the receive loop of the
\* connection keeps running (later heartbeats on it are still processed) and
\* the registry is as it was.
C21_MalformedFrameDropped ==
    mqResult.op = "malformed" =>
        /\ mqResult.worker \in connOpen
        /\ workers = mqResult.loads

\* C22 as stated: the workloads a worker reports in its heartbeats on one
\* connection are monotone (never falling, or never rising).
C22_MonotoneWorkloads ==
    \/ \A i, j \in 1..Len(wnReported) : i <= j => wnReported[i] <= wnReported[j]
    \/ \A i, j \in 1..Len(wnReported) : i <= j => wnReported[i] >= wnReported[j]

\* C22 as amended: on one connection of a new WorkerNode the workload is
\* the number of jobs received and not finished, which is 0 or 1 because
\* the jobs are processed one at a time, and every heartbeat reports 0 or 1.
C22_WorkloadIsJobsInProgress ==
    /\ wnWorkload \in {0, 1}
    /\ wnConn = "open" => wnWorkload = (IF wnJob = "none" THEN 0 ELSE 1)
    /\ \A i \in 1..Len(wnReported) : wnReported[i] \in {0, 1}

\* heartbeats before, during and after a job: the workload rises and falls
C22_Witness ==
    /\ wnReported = <<0, 1, 0>>
    /\ wnCompleted = 1

\* the state changes the spec declares for a job or a lambda function
LegalChange(from, to) ==
    \/ from = to
    \/ <<from, to>> \in {<<"None", "Pending">>, <<"Pending", "Running">>,
                         <<"Running", "Completed">>, <<"Running", "Failed">>}

\* C23: every state change of a job or of a lambda function follows
\* Pending -> Running -> {Completed | Failed}, over every run of run_job and
\* every call of invoke, and a set_state with an undeclared state is
\* rejected and leaves the state as it was.
C23_JobStateMachine ==
    [][/\ LegalChange(lamState, lamState')
       /\ \A e \in Executors :
            \A i \in (DOMAIN plJobs[e]) \cap (DOMAIN plJobs'[e]) :
                LegalChange(plJobs[e][i], plJobs'[e][i])
       /\ lamResult'.op = "set_state" =>
            lamResult'.how = "ValueError" /\ lamState' = lamState]_vars

\* a process with the one pipeline e, none of whose jobs fails
AloneAndNoJobFails(e) ==
    /\ \A d \in Executors \ {e} : plPc[d] = PlNone
    /\ \A i \in DOMAIN plJobs[e] : plJobs[e][i] # "Failed"

\* C24: execute_pipeline takes the pipeline from Scheduled to Running and,
\* once its jobs have been run in order, on to Completed; it never waits
\* forever for the completion event of a job that has already finished.
\* Stated for a pipeline that runs alone and whose jobs all complete: once
\* Running, it is eventually Completed.
C24_PipelineProgress ==
    \A e \in Executors :
        [](AloneAndNoJobFails(e)) =>
            ((plState[e] = "Running") ~> (plState[e] = "Completed"))

\* the calls of invoke suspended in wait_for
Running == {t \in Invokers : lamTask[t].pc = "running"}

\* C25: 0 <= active_executions <= concurrency_limit in every state; an
\* invoke that finds the counter at the limit is skipped and changes neither
\* the state nor the counter; an invoke is admitted only below the limit and
\* lowers the counter exactly once, when it ends, so that the counter is the
\* number of admitted calls that have not ended.
C25_ConcurrencyGate ==
    /\ 0 <= active_executions /\ active_executions <= lamLimit
    /\ active_executions = Cardinality(Running)
    /\ lamResult.op = "invoke" =>
        /\ lamResult.how = "skipped" =>
                /\ lamResult.active >= lamLimit
                /\ lamState = lamResult.state
                /\ active_executions = lamResult.active
        /\ lamResult.how = "admitted" =>
                /\ lamResult.active < lamLimit
                /\ active_executions = lamResult.active + 1
        /\ lamResult.how \in {"returned", "raised", "timeout", "propagated"} =>
                active_executions = lamResult.active - 1

\* with a limit of 2 and two calls in progress, a third call has been skipped
C25_Witness ==
    /\ lamLimit = 2 /\ active_executions = 2
    /\ lamResult.op = "invoke" /\ lamResult.how = "skipped"

Components(str) ==
    {c \in (1..Len(str)) \X (1..Len(str)) :
        /\ c[1] <= c[2] /\ c[2] < Len(str)
        /\ \A k \in c[1]..c[2] : str[k] \in Digits
        /\ c[1] = 1 \/ str[c[1] - 1] \notin Digits
        /\ str[c[2] + 1] \in {"q", "M", "w", "d", "h", "m", "s"}}

UnitSeconds(u) ==
    CASE u = "q" -> 7884000 [] u = "M" -> 2628000 [] u = "w" -> 604800
      [] u = "d" -> 86400 [] u = "h" -> 3600 [] u = "m" -> 60 [] u = "s" -> 1

RECURSIVE SumOver(_, _)
SumOver(str, cs) ==
    IF cs = {} THEN 0
    ELSE LET c == CHOOSE x \in cs : TRUE
         IN IntOf(SubSeq(str, c[1], c[2])) * UnitSeconds(str[c[2] + 1])
                + SumOver(str, cs \ {c})

\* C27: parse_time_string returns the sum, over the components <n><unit> of
\* the string, of n times the seconds of the unit, whatever their order: the
\* five components of "2w3d5h20m30s" give 1488030 in every order, and a
\* string without a component (the empty one too) gives 0.
C27_ParseTimeString ==
    ptPc = "done" =>
        /\ ptTotal = SumOver(ptInput, Components(ptInput))
        /\ ptInput \in ExampleStrings => ptTotal = 1488030
        /\ Components(ptInput) = {} => ptTotal = 0

\* the call with "2w3d5h20m30s" has returned 1488030
C27_Witness ==
    /\ ptPc = "done"
    /\ ptInput = <<"2", "w", "3", "d", "5", "h", "2", "0", "m", "3", "0", "s">>
    /\ ptTotal = 1488030

InWal(wal, key, value) ==
    LET rec == Record(key, value)
    IN /\ wal.exists /\ Len(wal.bytes) >= Len(rec)
       /\ SubSeq(wal.bytes, Len(wal.bytes) - Len(rec) + 1, Len(wal.bytes)) = rec

\* the record of (key, value) is in the data file `data` at `offset`
InData(data, key, value, offset) ==
    Read(data.bytes, offset, Len(Record(key, value))) = Record(key, value)

\* the persisted index `idx` points at the record of (key, value) in `data`
Persisted(idx, data, key, value) ==
    /\ idx.exists /\ key \in DOMAIN idx.index
    /\ InData(data, key, value, idx.index[key])

\* what the files hold at each step of a set in progress
SetStepState ==
    /\ dbmPc.step = "wal" => InWal(walFile, dbmPc.key, dbmPc.value)
    /\ dbmPc.step = "data" =>
         /\ InWal(walFile, dbmPc.key, dbmPc.value)
         /\ InData(dataFile, dbmPc.key, dbmPc.value, dbmPc.offset)
    /\ dbmPc.step = "index" =>
         /\ InWal(walFile, dbmPc.key, dbmPc.value)
         /\ Persisted(idxFile, dataFile, dbmPc.key, dbmPc.value)
         /\ index[dbmPc.key] = dbmPc.offset
         /\ idxFile.index[dbmPc.key] = dbmPc.offset

\* C29: a set goes through WAL append, data-file append, index update with
\* its persist, and WAL truncate, in this order: after each step the files
\* hold what the steps so far have written, and the WAL changes during a
\* set only by the truncate, which comes when the data file holds the
\* record and the persisted index points at it and leaves both so; hence
\* from the WAL append on, the WAL holds the complete record or the data
\* file and the persisted index reflect it.
C29_SetStepOrder ==
    [][/\ SetStepState'
       /\ (dbmPc.step # "idle" /\ walFile' # walFile) =>
            /\ dbmPc.step = "index"
            /\ Persisted(idxFile, dataFile, dbmPc.key, dbmPc.value)
            /\ walFile'.bytes = <<>>
            /\ Persisted(idxFile', dataFile', dbmPc.key, dbmPc.value)
            /\ dbmResult'.op = "set" /\ dbmResult'.res.tag = "ok"]_vars

\* a second set has persisted its index and has not truncated the WAL yet:
\* the record is in the WAL, in the data file and in the persisted index
C29_Witness ==
    /\ dbmPc.step = "index" /\ dbmPc.offset > 0
    /\ InWal(walFile, dbmPc.key, dbmPc.value)
    /\ Persisted(idxFile, dataFile, dbmPc.key, dbmPc.value)
    /\ idxFile.index[dbmPc.key] = dbmPc.offset

\* task t waits for the lock of `key`
WaitsFor(t, key) == \E i \in 1..Len(lockWaiters[key]) : lockWaiters[key][i] = t

\* C30: every set, get and delete returns: no call, and no step of the TTL
\* scheduler, waits for a per-key lock that only its own return would
\* release (a lock it holds itself); in particular, with no failure of any
\* commit, a set on a key whose TTL has passed and which is not reaped yet
\* does not wait in __delitem__ for its own lock.
C30_EveryCallReturns ==
    ormFails = 0 =>
        \A k \in OrmKeys : \A t \in OrmTasks \cup {TtlTask} :
            ~(lockHolder[k] = t /\ WaitsFor(t, k))

\* the log holds the entry the set of task t wrote
Logged(log, t) == \E i \in 1..Len(log) : log[i].task = t

\* C31: the log brackets of overlapping sets on distinct keys are
\* independent: the commit of one set leaves the log entry of another set
\* that has not committed or rolled back yet, and the rollback of a set
\* deletes no stored key but its own.
C31_IndependentBrackets ==
    [][/\ \A t, u \in OrmTasks :
            (/\ t # u
             /\ ormTask[u].pc = "set_commit" /\ ormTask'[u].pc = "idle"
             /\ ormTask[t].pc = "set_commit" /\ ormTask'[t].pc = "set_commit"
             /\ ormTask[t].key # ormTask[u].key
             /\ Logged(transaction_log, t))
            => Logged(transaction_log', t)
       /\ \A t \in OrmTasks :
            (ormTask[t].pc \in {"rb_read", "rb_del"} /\ ormTask'[t] # ormTask[t])
            => \A k \in OrmKeys \ {ormTask[t].key} :
                    k \in DOMAIN ormStore => k \in DOMAIN ormStore']_vars

\* C32: the TTL scheduler deletes a stored key only when the expire_time of
\* the entry it popped is the expiry recorded for the key at the moment of
\* the delete (a key set again with another TTL or without one, or deleted, since
\* the entry was pushed is left alone), and the entry it pops after a sleep
\* is the entry it had peeked.
C32_StaleEntryDiscarded ==
    [][/\ (/\ ormTask[TtlTask].pc = "ttl_del" /\ ormTask'[TtlTask].pc = "idle"
            /\ ormTask[TtlTask].key \in DOMAIN ormStore)
            => /\ ormTask[TtlTask].key \in DOMAIN ttl_store
               /\ ttl_store[ormTask[TtlTask].key] = ormTask[TtlTask].entry.expire_time
       /\ (ormTask[TtlTask].pc = "ttl_sleep" /\ Len(ttl_heap') < Len(ttl_heap))
            => ttl_heap[HeapMinIndex(ttl_heap)] = ormTask[TtlTask].entry]_vars

\* C33: with a non-empty heap the scheduler blocks until the smallest expiry
\* or until a set with a TTL raises the signal after the wait began: a
\* signal raised earlier has been consumed by the re-plan it caused, so when
\* the scheduler starts to wait for the smallest expiry the signal is down.
C33_SignalConsumed ==
    [][(ormTask[TtlTask].pc # "ttl_sleep" /\ ormTask'[TtlTask].pc = "ttl_sleep")
            => ~ttl_event']_vars

\* history `new` is history `old` with entries appended at its end
GrowsAtEnd(old, new) ==
    /\ Len(new) >= Len(old)
    /\ SubSeq(new, 1, Len(old)) = old

\* C34: no operation of KatamariMVCC removes or alters an entry of a
\* history: each key's history changes only by an append at its end, and
\* along a history the timestamps never decrease.
C34_AppendOnlyHistory ==
    [][\A k \in MvKeys :
            /\ GrowsAtEnd(store[k], store'[k])
            /\ \A i \in 1..(Len(store'[k]) - 1) :
                    store'[k][i].timestamp <= store'[k][i + 1].timestamp]_vars

(***************************************************************************)
(* Claims about KatamariDBM shared by several threads                      *)
(***************************************************************************)
\* thread th is between the first write of its call and the last
Writing(th) == wrPc[th].step \in {"wal", "data", "index", "del"}

\* the calls on `key`, as positions of wrOrder
CallsOn(key) == {i \in 1..Len(wrOrder) : wrOrder[i].key = key}

\* the size of the data file when the call at position i of wrOrder took
\* the lock, were the calls before it run one after the other
RECURSIVE SerialOffset(_)
SerialOffset(i) ==
    IF i = 1 THEN 0
    ELSE SerialOffset(i - 1)
         + (IF wrOrder[i - 1].op = "set"
            THEN Len(Record(wrOrder[i - 1].key, wrOrder[i - 1].value)) ELSE 0)

\* C35: the writers of one KatamariDBM are serialised: at most one set or
\* delete is between its first write and its last, and once every call has
\* returned the index entry of each key whose last call was a set is the
\* offset at which the record of that set starts in the data file (a key
\* whose last call was a delete has no entry), in memory and in the index
\* file.
C35_WritersSerialised ==
    /\ Cardinality({th \in Writers : Writing(th)}) <= 1
    /\ (\A th \in Writers : wrPc[th] = WrIdle)
       => /\ wrIdx = wrIndex
          /\ \A k \in DbmKeys :
                IF CallsOn(k) # {} /\ wrOrder[Max(CallsOn(k))].op = "set"
                THEN LET i == Max(CallsOn(k))
                         rec == Record(k, wrOrder[i].value)
                     IN /\ k \in DOMAIN wrIndex
                        /\ wrIndex[k] = SerialOffset(i)
                        /\ Read(wrData, wrIndex[k], Len(rec)) = rec
                ELSE k \notin DOMAIN wrIndex

\* two threads have set the same key to different values, the second call
\* made before the first took the lock; both have returned and the index
\* points at the second record
C35_Witness ==
    /\ \A th \in Writers : wrPc[th] = WrIdle
    /\ Len(wrOrder) >= 2
    /\ wrOrder[1].op = "set" /\ wrOrder[2].op = "set"
    /\ wrOrder[1].key = wrOrder[2].key
    /\ wrOrder[1].value # wrOrder[2].value
    /\ wrOrder[1].calls >= 2
    /\ Cardinality(CallsOn(wrOrder[1].key)) = 2
    /\ wrIndex[wrOrder[1].key] = Len(Record(wrOrder[1].key, wrOrder[1].value))

(***************************************************************************)
(* Claims about the index rebuild of KatamariDBM                           *)
(***************************************************************************)
\* the offsets at which the records of a data file of complete records start
RECURSIVE RecordStarts(_, _)
RecordStarts(bytes, pos) ==
    IF pos >= Len(bytes) THEN {}
    ELSE {pos} \cup RecordStarts(bytes,
                pos + HeaderLen + KeySize(Read(bytes, pos, HeaderLen))
                    + ValueSize(Read(bytes, pos, HeaderLen)))

\* the key of the record that starts at `offset`
KeyOfRecord(bytes, offset) ==
    Read(bytes, offset + HeaderLen, KeySize(Read(bytes, offset, HeaderLen)))

\* the store has just been opened with no index file, an existing data file
\* of complete records and nothing to replay: self.index is the rebuilt index
Rebuilt ==
    /\ dbmUp = "up"
    /\ dbmResult.op = "open"
    /\ ~idxFile.exists
    /\ dataFile.exists
    /\ CompleteRecords(dataFile.bytes, 0)

\* C36: an index rebuilt from the data file holds exactly the keys that
\* occur in the data file and maps each to the offset of the last record
\* that carries the key.
C36_IndexRebuild ==
    Rebuilt
    => LET starts == RecordStarts(dataFile.bytes, 0)
       IN /\ DOMAIN index = {KeyOfRecord(dataFile.bytes, o) : o \in starts}
          /\ \A k \in DOMAIN index :
                index[k] = Max({o \in starts : KeyOfRecord(dataFile.bytes, o) = k})

\* the index was rebuilt from a data file that holds two records of one key
C36_Witness ==
    /\ Rebuilt
    /\ \E k \in DbmKeys :
            /\ Cardinality({o \in RecordStarts(dataFile.bytes, 0) :
                                KeyOfRecord(dataFile.bytes, o) = k}) = 2
            /\ k \in DOMAIN index /\ index[k] > 0

(***************************************************************************)
(* Claims about the registration handshake                                 *)
(***************************************************************************)
\* C37: once the server has processed the first frame of the node with id
\* W, the worker_id its handler holds is W and its registry has an entry
\* keyed exactly W (the text W), the entry the heartbeats of the connection
\* update.
C37_RegistrationHandshake ==
    \A c \in Nodes :
        hsHandler[c] = "loop"
        => /\ hsWorkerId[c] = Text(c)
           /\ Text(c) \in DOMAIN hsWorkers

(***************************************************************************)
(* Claims about the worker registry of KatamariMQServer                    *)
(***************************************************************************)
\* the persisted records are those of the registered workers, each with the
\* workload the registry holds
PersistedIsRegistry ==
    /\ DOMAIN dbWorkers = Registered
    /\ \A w \in Registered : dbWorkers[w] = WorkloadOf(w)

\* the step is a registration of w or a heartbeat for w
Reports(w) ==
    /\ mqResult'.op \in {"register", "heartbeat", "update_heartbeat"}
    /\ mqResult'.worker = w

\* C38: after every step of the server the workload persisted for a worker
\* is the workload the registry holds for it, and that is the value the
\* worker reported last: 0 after its registration, the reported workload
\* after a heartbeat, and unchanged by every other step; a heartbeat for an
\* id that is not in the registry changes neither the registry nor the
\* persisted records.
C38_PersistedWorkload ==
    [][/\ PersistedIsRegistry'
       /\ \A w \in WorkerIds :
            IF Reports(w) /\ mqResult'.op = "register"
            THEN w \in Registered' /\ WorkloadOf(w)' = 0 /\ dbWorkers'[w] = 0
            ELSE IF Reports(w) /\ w \in Registered
            THEN /\ w \in Registered'
                 /\ WorkloadOf(w)' = mqResult'.workload
                 /\ dbWorkers'[w] = mqResult'.workload
            ELSE IF Reports(w)
            THEN workers' = workers /\ dbWorkers' = dbWorkers
            ELSE w \in Registered
                 => w \in Registered' /\ WorkloadOf(w)' = WorkloadOf(w)]_vars

\* a heartbeat for an id that is not registered has just been ignored,
\* while another worker is registered with workload 1
C38_Witness ==
    /\ mqResult.op = "update_heartbeat"
    /\ mqResult.worker \notin Registered
    /\ mqResult.workload = 1
    /\ \E w \in Registered : WorkloadOf(w) = 1 /\ dbWorkers[w] = 1

(***************************************************************************)
(* Claims about assign_shards                                              *)
(***************************************************************************)
\* the number of workers that come before the k-th worker of the registry
\* when the workers are put in ascending order of workload, workers of equal
\* workload staying in the order of the registry
Rank(loads, k) ==
    Cardinality({j \in 1..Len(loads) :
                    \/ loads[j].workload < loads[k].workload
                    \/ (loads[j].workload = loads[k].workload /\ j < k)})

\* the shards the call has persisted so far
PersistedShards(call) == 0..(Min(call.i + 1, Len(call.shards)) - 1)

ExampleRegistry ==
    <<[id |-> 1, workload |-> 2], [id |-> 2, workload |-> 0], [id |-> 3, workload |-> 1]>>

\* C39: in a call of assign_shards for N registered workers, every shard i
\* the call has persisted is under shard_{job_id}_{i}, holds the i-th slice
\* of the data, and is assigned to the worker at position i mod N of the
\* workers in ascending order of the workload they had at the call; for the
\* registry w1 (workload 2), w2 (0), w3 (1) and the data 1..9 the finished
\* call has persisted [1,2,3] for w2, [4,5,6] for w3 and [7,8,9] for w1.
C39_ShardAssignment ==
    mqCall.pc \in {"send", "done"}
    => /\ \A i \in PersistedShards(mqCall) :
            /\ <<mqCall.job_id, i>> \in DOMAIN dbShards
            /\ dbShards[<<mqCall.job_id, i>>].shard_data = mqCall.shards[i + 1]
            /\ \E k \in 1..Len(mqCall.loads) :
                    /\ Rank(mqCall.loads, k) = i % Len(mqCall.loads)
                    /\ dbShards[<<mqCall.job_id, i>>].assigned_to = mqCall.loads[k].id
       /\ (/\ mqCall.pc = "done"
           /\ mqCall.loads = ExampleRegistry
           /\ mqCall.data = <<1, 2, 3, 4, 5, 6, 7, 8, 9>>)
          => /\ mqCall.i = 3
             /\ dbShards[<<mqCall.job_id, 0>>] =
                    [shard_data |-> <<1, 2, 3>>, assigned_to |-> 2]
             /\ dbShards[<<mqCall.job_id, 1>>] =
                    [shard_data |-> <<4, 5, 6>>, assigned_to |-> 3]
             /\ dbShards[<<mqCall.job_id, 2>>] =
                    [shard_data |-> <<7, 8, 9>>, assigned_to |-> 1]
             /\ mqCall.assigned = <<2, 3, 1>>

\* the call for the example registry and the data 1..9 has finished
C39_Witness ==
    /\ mqCall.pc = "done"
    /\ mqCall.loads = ExampleRegistry
    /\ mqCall.data = <<1, 2, 3, 4, 5, 6, 7, 8, 9>>
    /\ mqCall.i = 3
    /\ Len(frames[1]) = 1 /\ Len(frames[2]) = 1 /\ Len(frames[3]) = 1

(***************************************************************************)
(* Claims about the workload counter of WorkerNode                         *)
(***************************************************************************)
\* the frames receive_jobs has taken and process_job has not left
FramesInProgress == IF wnJob = "none" THEN 0 ELSE 1

\* C40: the workload counter of a worker is the number of job frames it is
\* processing at the moment, whether the frames before completed, failed
\* with an error or had an unknown shape: it is never negative and it is 0
\* whenever no frame is being processed.
C40_WorkloadCountsFramesInProgress ==
    /\ wnWorkload >= 0
    /\ wnWorkload = FramesInProgress

====
